---- MODULE Spec2Model ----
(***************************************************************************)
(* A model of the per-region pipeline of InterSubMod: the modification     *)
(* decoder (MethylationParser), the allele-support walk of the read        *)
(* parser, the read loop of the region processor, the matrix builder, the  *)
(* region scheduler (process_all_regions), the distance driver             *)
(* (DistanceMatrix::compute_subset), the clusterer                         *)
(* (HierarchicalClustering::build_tree) and the tree cutter.               *)
(***************************************************************************)
EXTENDS Integers, Sequences, FiniteSets, TLC

VARIABLES
    rd,     \* decoder input: the BAM record, its MM/ML tags and the reference window
    dec,    \* decoder locals of MethylationParser::parse_read
    ar,     \* region input: the records the archive returns, the reference, the flags
    rp,     \* locals of RegionProcessor::process_single_region
    job,    \* pool input: the variant table, max_snvs, thread count, metric list
    pool,   \* state shared by the workers of process_all_regions
    wk,     \* each worker's locals
    mx,     \* distance input: the methylation matrix, the strands, the configuration
    dm,     \* the DistanceMatrix under computation and compute_subset's accumulators
    th,     \* the locals of compute_subset's threads
    cl,     \* clustering input: the distance matrix, the read names, the linkage method
    hc,     \* the locals of build_tree and build_generic, and the tree
    mb,     \* a MatrixBuilder: its members and the outcome of the last call
    tc,     \* the locals and the result of TreeCutter::cut_by_num_clusters
    av      \* determine_alt_support_with_reason: its arguments and its result

vars == <<rd, dec, ar, rp, job, pool, wk, mx, dm, th, cl, hc, mb, tc, av>>

(***************************************************************************)
(* Bounds of the model.                                                    *)
(***************************************************************************)
MaxSeqLen == 3      \* length of the stored query sequence
MaxDeltas == 2      \* most deltas in the C+m? entry
MaxPrior == 1       \* most entries in front of the C+m? entry
MaxMlLen == 3       \* most bytes in the ML array
MaxRows == 3        \* most rows of a methylation matrix
MaxCols == 3        \* columns of a methylation matrix
MaxRegions == 2     \* most variants in the variant table
MaxReads == 2       \* most records the archive returns for a region

(***************************************************************************)
(* Generic helpers.                                                        *)
(***************************************************************************)
RECURSIVE SumSeq(_)
SumSeq(s) == IF s = <<>> THEN 0 ELSE Head(s) + SumSeq(Tail(s))

Range(s) == {s[i] : i \in 1..Len(s)}

SeqsUpTo(S, lo, hi) == UNION {[1..n -> S] : n \in lo..hi}

(***************************************************************************)
(* MethylationParser: the MM tag as text.  The tag is a sequence of        *)
(* tokens: a modification code, "," , a decimal number, ";".               *)
(***************************************************************************)
Bases == {"A", "C", "G"}
ModCodes == {"C+h?", "C+m?"}

RECURSIVE RenderDeltas(_)
RenderDeltas(ds) ==
    IF ds = <<>> THEN <<>>
    ELSE <<",", ToString(Head(ds))>> \o RenderDeltas(Tail(ds))

RenderEntry(e) == <<e.code>> \o RenderDeltas(e.deltas) \o <<";">>

RECURSIVE MMString(_)
MMString(es) ==
    IF es = <<>> THEN <<>> ELSE RenderEntry(Head(es)) \o MMString(Tail(es))

\* std::string::find: index of the first occurrence, 0 for npos
Find(s, tok) ==
    IF \E i \in 1..Len(s) : s[i] = tok
    THEN CHOOSE i \in 1..Len(s) : s[i] = tok /\ \A j \in 1..(i - 1) : s[j] # tok
    ELSE 0

CountBefore(s, tok, pos) == Cardinality({i \in 1..(pos - 1) : s[i] = tok})

IsNumber(tok) == \E n \in 0..9 : ToString(n) = tok
Stoi(tok) == CHOOSE n \in 0..9 : ToString(n) = tok

RECURSIVE ReadDeltas(_, _)
ReadDeltas(mm, p) ==
    IF p > Len(mm) \/ ~IsNumber(mm[p]) THEN <<>>
    ELSE <<Stoi(mm[p])>> \o
         (IF p + 1 <= Len(mm) /\ mm[p + 1] = "," THEN ReadDeltas(mm, p + 2) ELSE <<>>)

parse_mm_tag(mm, mod_code) ==
    LET pos == Find(mm, mod_code) IN
    IF pos = 0 THEN <<>>
    ELSE IF pos + 1 > Len(mm) \/ mm[pos + 1] # "," THEN <<>>
    ELSE ReadDeltas(mm, pos + 2)

\* ml_offset as parse_read computes it: commas in front of "C+m?" minus
\* semicolons in front of it
MlOffset(mm) ==
    LET cm_pos == Find(mm, "C+m?") IN
    IF cm_pos = 0 THEN 0
    ELSE CountBefore(mm, ",", cm_pos) - CountBefore(mm, ";", cm_pos)

\* static_cast<size_t>(ml_offset + deltas.size()) > ml_len : the sum is
\* formed in size_t, so a negative sum wraps to a value above every uint32
NotEnoughMl(ml_offset, n_deltas, ml_len) ==
    IF ml_offset + n_deltas < 0 THEN TRUE ELSE ml_offset + n_deltas > ml_len

(***************************************************************************)
(* MethylationParser: the alignment.                                       *)
(***************************************************************************)
ConsumesBoth(op) == op \in {"M", "=", "X"}
ConsumesQuery(op) == op \in {"I", "S"}
ConsumesRef(op) == op \in {"D", "N"}

\* one CIGAR operation of build_seq_to_ref_map: st = [map, seq_pos, ref_pos]
CigarStep(st, c, l_qseq) ==
    IF ConsumesBoth(c.op) THEN
        [map |-> [q \in 1..l_qseq |->
                    IF q - 1 >= st.seq_pos /\ q - 1 < st.seq_pos + c.len
                    THEN st.ref_pos + (q - 1 - st.seq_pos) ELSE st.map[q]],
         seq_pos |-> st.seq_pos + c.len,
         ref_pos |-> st.ref_pos + c.len]
    ELSE IF ConsumesQuery(c.op) THEN [st EXCEPT !.seq_pos = @ + c.len]
    ELSE IF ConsumesRef(c.op) THEN [st EXCEPT !.ref_pos = @ + c.len]
    ELSE st

RECURSIVE CigarWalk(_, _, _)
CigarWalk(st, cigar, l_qseq) ==
    IF cigar = <<>> THEN st
    ELSE CigarWalk(CigarStep(st, Head(cigar), l_qseq), Tail(cigar), l_qseq)

\* seq_to_ref[q] for q in 1..l_qseq (query index q-1 of the code), -1 when unaligned
build_seq_to_ref_map(b) ==
    CigarWalk([map |-> [q \in 1..Len(b.seq) |-> -1], seq_pos |-> 0, ref_pos |-> b.pos],
              b.cigar, Len(b.seq)).map

\* is_cpg_site(ref_seq, offset), offset 0-based
is_cpg_site(ref_seq, offset) ==
    IF offset + 1 >= Len(ref_seq) THEN FALSE
    ELSE ref_seq[offset + 1] = "C" /\ ref_seq[offset + 2] = "G"


(***************************************************************************)
(* MethylationParser::parse_read as a state machine.                       *)
(***************************************************************************)
RefStart == 10          \* 0-based genome coordinate of ref_seq[0]
MlFamily == <<204, 25, 128, 77, 230, 3, 150, 99>>   \* distinct probability bytes
UbBytes == {0, 255}     \* what a read in front of the ML data may yield

Cigars(n) ==
    {<< [op |-> "M", len |-> n] >>}
    \cup {<< [op |-> "M", len |-> k], [op |-> "I", len |-> 1], [op |-> "M", len |-> n - k - 1] >>
            : k \in 1..(n - 2)}
    \cup {<< [op |-> "M", len |-> k], [op |-> "D", len |-> 1], [op |-> "M", len |-> n - k] >>
            : k \in 1..(n - 1)}
    \cup {<< [op |-> "S", len |-> 1], [op |-> "M", len |-> n - 1] >>}

RefWindows == { <<"C", "G", "C", "G">>, <<"G", "C", "G", "A">> }

\* the entries in front of C+m?, by their numbers of deltas
PriorEntries == {[code |-> "C+h?", deltas |-> [i \in 1..n |-> 0]] : n \in {0, 2}}
DeltaValues == {0, 1}
CmEntries == {[code |-> "C+m?", deltas |-> ds] : ds \in SeqsUpTo(DeltaValues, 0, MaxDeltas)}
MMEntryLists ==
    {pre \o <<cm>> : pre \in SeqsUpTo(PriorEntries, 0, MaxPrior), cm \in CmEntries}
    \cup SeqsUpTo(PriorEntries, 1, 1)

DecoderInputs ==
    [is_reverse : BOOLEAN,
     seq : [1..MaxSeqLen -> {"C", "G"}],
     cigar : Cigars(MaxSeqLen),
     pos : {RefStart, RefStart + 1},
     mm_entries : MMEntryLists,
     ml : {SubSeq(MlFamily, 1, n) : n \in {1, MaxMlLen}},
     ref_seq : RefWindows,
     ref_start_pos : {RefStart}]

DecIdle ==
    [pc |-> "idle", ml_offset |-> 0, deltas |-> <<>>, seq_to_ref |-> <<>>, seq_idx |-> 0,
     base_count |-> 0, delta_idx |-> 0, next_target |-> -1, calls |-> <<>>]

RdIdle ==
    [is_reverse |-> FALSE, seq |-> <<>>, cigar |-> <<>>, pos |-> 0, mm_entries |-> <<>>,
     ml |-> <<>>, ref_seq |-> <<>>, ref_start_pos |-> 0]

ArIdle == [reads |-> <<>>, ref_ok |-> TRUE, no_filter_output |-> FALSE,
           output_filtered_reads |-> FALSE, compute_distance_matrix |-> TRUE,
           compute_clustering |-> TRUE, clustering_min_reads |-> 10]

RpIdle ==
    [pc |-> "idle", idx |-> 0, read_count |-> 0, processed_read_names |-> {},
     reads_ |-> <<>>, filtered_reads |-> <<>>, finalized_ |-> FALSE,
     num_forward_reads |-> 0, num_reverse_reads |-> 0, num_reads |-> 0,
     success |-> FALSE, error_message |-> "",
     cpg_positions_ |-> <<>>, matrix_ |-> <<>>, num_cpgs |-> 0,
     all_dist |-> [read_ids |-> <<>>, dist_matrix |-> <<>>],
     destroyed |-> <<>>]

JobIdle == [snvs |-> <<>>, max_snvs |-> 0, num_threads |-> 0, distance_metrics |-> <<>>,
            bam_ok |-> TRUE]

PoolIdle == [phase |-> "idle", next |-> 0, results |-> <<>>, metric |-> "",
             writers |-> <<>>, readers |-> <<>>, runs |-> <<>>, by |-> <<>>, handle |-> <<>>]

MxIdle ==
    [methyl_mat |-> [read_ids |-> <<>>, raw_matrix |-> <<>>, binary_matrix |-> <<>>],
     strands |-> <<>>,
     config |-> [metric |-> "NHD", pearson_center |-> TRUE, jaccard_include_unmeth |-> FALSE,
                 nan_strategy |-> "MAX_DIST", min_common_coverage |-> 3,
                 max_distance_value |-> [k |-> "q", s |-> 0, n |-> 1, d |-> 1],
                 num_threads |-> 1],
     call |-> "all"]

\* DistanceMatrix.hpp: a default-constructed DistanceMatrix, with the
\* accumulators of compute_subset
DmIdle ==
    [phase |-> "idle", row_indices |-> <<>>, read_ids |-> <<>>, dist_matrix |-> <<>>,
     valid_pairs |-> 0, invalid_pairs |-> 0, total_common_coverage |-> 0, next_i |-> 0,
     num_valid_pairs |-> 0, num_invalid_pairs |-> 0,
     avg_common_coverage |-> [k |-> "q", s |-> 0, n |-> 0, d |-> 1]]

\* no clustering call: an empty matrix, and the locals of build_generic
ClIdle == [dist_matrix |-> <<>>, read_names |-> <<>>, method |-> "UPGMA"]

HcIdle ==
    [pc |-> "idle", nodes |-> <<>>, cluster_members |-> <<>>, cluster_sizes |-> <<>>,
     active |-> <<>>, merge_records |-> <<>>, next_node_id |-> 0, active_count |-> 0,
     root |-> -1]

\* no builder call: a fresh MatrixBuilder (MatrixBuilder.hpp line 103)
MbIdle ==
    [reads_ |-> <<>>, read_methyl_data_ |-> <<>>, cpg_positions_ |-> <<>>,
     matrix_ |-> <<>>, finalized_ |-> FALSE, last |-> "none", added |-> <<>>]

\* no cut requested
TcIdle == [pc |-> "idle", k |-> 0, labels |-> <<>>]

\* no allele-support call
AvIdle == [pc |-> "idle"]

InitDecoder ==
    /\ rd \in DecoderInputs
    /\ dec = [DecIdle EXCEPT !.pc = "start"]
    /\ ar = ArIdle
    /\ rp = RpIdle
    /\ job = JobIdle
    /\ pool = PoolIdle
    /\ wk = <<>>
    /\ mx = MxIdle
    /\ dm = DmIdle
    /\ th = <<>>
    /\ cl = ClIdle
    /\ hc = HcIdle
    /\ mb = MbIdle
    /\ tc = TcIdle
    /\ av = AvIdle

\* lines 46-82 and 114-116: the tags, the early returns, the locals of the loop
ParseTags ==
    /\ dec.pc = "start"
    /\ LET mm == MMString(rd.mm_entries)
           cm_pos == Find(mm, "C+m?")
           ml_offset == MlOffset(mm)
           deltas == IF cm_pos # 0 THEN parse_mm_tag(mm, "C+m?") ELSE <<>>
       IN IF deltas = <<>> \/ NotEnoughMl(ml_offset, Len(deltas), Len(rd.ml))
          THEN dec' = [dec EXCEPT !.pc = "done", !.ml_offset = ml_offset, !.deltas = deltas]
          ELSE dec' = [dec EXCEPT !.pc = "loop", !.ml_offset = ml_offset, !.deltas = deltas,
                                  !.seq_to_ref = build_seq_to_ref_map(rd),
                                  !.next_target = deltas[1]]
    /\ UNCHANGED <<rd, ar, rp, job, pool, wk, mx, dm, th, cl, hc, mb, tc, av>>

TargetBase(is_reverse) == IF is_reverse THEN "G" ELSE "C"

\* lines 131-152: bounds and CpG context of a 0-based reference position
ValidCpg(is_reverse, ref_seq, ref_offset) ==
    /\ ref_offset >= 0 /\ ref_offset < Len(ref_seq)
    /\ IF is_reverse
       THEN ref_seq[ref_offset + 1] = "G" /\ ref_offset > 0 /\ ref_seq[ref_offset] = "C"
       ELSE ref_seq[ref_offset + 1] = "C" /\ is_cpg_site(ref_seq, ref_offset)

\* line 162
ReportPos(is_reverse, ref_pos_0based) ==
    IF is_reverse THEN ref_pos_0based - 1 ELSE ref_pos_0based

\* ml_data[idx]: a byte of the array, or whatever lies outside it
MlRead(ml, idx) == IF idx >= 0 /\ idx < Len(ml) THEN {ml[idx + 1]} ELSE UbBytes

\* line 118: the order in which the loop visits the stored sequence (1-based index
\* of the step-th iteration, step from 0)
VisitIndex(is_reverse, seq_len, step) == step + 1

\* lines 170-175
NextTargetAfter(d) ==
    IF d.delta_idx + 1 < Len(d.deltas)
    THEN d.next_target + d.deltas[d.delta_idx + 2] + 1
    ELSE -1

\* lines 118-179: one iteration of the loop over the stored sequence
LoopStep ==
    /\ dec.pc = "loop"
    /\ LET q == VisitIndex(rd.is_reverse, Len(rd.seq), dec.seq_idx)
           hit == rd.seq[q] = TargetBase(rd.is_reverse) /\ dec.base_count = dec.next_target
           ref_pos_0based == dec.seq_to_ref[q]
           emits == /\ hit
                    /\ ref_pos_0based >= 0
                    /\ ValidCpg(rd.is_reverse, rd.ref_seq, ref_pos_0based - rd.ref_start_pos)
           pc2 == IF dec.seq_idx + 1 < Len(rd.seq) THEN "loop" ELSE "done"
       IN IF emits
          THEN \E byte \in MlRead(rd.ml, dec.ml_offset + dec.delta_idx) :
                 dec' = [dec EXCEPT
                           !.calls = Append(@, [ref_pos |-> ReportPos(rd.is_reverse, ref_pos_0based) + 1,
                                                probability |-> <<byte, 255>>]),
                           !.delta_idx = @ + 1,
                           !.next_target = NextTargetAfter(dec),
                           !.base_count = @ + 1,
                           !.seq_idx = @ + 1,
                           !.pc = pc2]
          ELSE IF hit
          THEN dec' = [dec EXCEPT !.delta_idx = @ + 1,
                                  !.next_target = NextTargetAfter(dec),
                                  !.base_count = @ + 1,
                                  !.seq_idx = @ + 1,
                                  !.pc = pc2]
          ELSE dec' = [dec EXCEPT !.base_count = IF rd.seq[q] = TargetBase(rd.is_reverse)
                                                 THEN @ + 1 ELSE @,
                                  !.seq_idx = @ + 1,
                                  !.pc = pc2]
    /\ UNCHANGED <<rd, ar, rp, job, pool, wk, mx, dm, th, cl, hc, mb, tc, av>>

NextDecoder == ParseTags \/ LoopStep

SpecDecoder == InitDecoder /\ [][NextDecoder]_vars


(***************************************************************************)
(* What the modification tags mean (SAM MM/ML): the deltas of an entry     *)
(* count target bases along the original read, 5' to 3', which for a       *)
(* reverse-strand read is the stored sequence from right to left; the      *)
(* probabilities of the entries follow each other in the ML array.         *)
(***************************************************************************)
\* the stored-sequence indices in the original read's 5'->3' order
OriginalOrder(is_reverse, n) == [k \in 1..n |-> IF is_reverse THEN n + 1 - k ELSE k]

RECURSIVE SelectIdx(_, _, _)
SelectIdx(order, seq, base) ==
    IF order = <<>> THEN <<>>
    ELSE (IF seq[Head(order)] = base THEN <<Head(order)>> ELSE <<>>)
         \o SelectIdx(Tail(order), seq, base)

\* the stored-sequence indices of the target bases, in the given order
TargetOccurrences(order, r) == SelectIdx(order, r.seq, TargetBase(r.is_reverse))

\* the 1-based number of the occurrence the k-th delta selects
OccurrenceOf(deltas, k) == SumSeq(SubSeq(deltas, 1, k)) + k

HasCm(es) == \E i \in 1..Len(es) : es[i].code = "C+m?"
CmIndex(es) == CHOOSE i \in 1..Len(es) : es[i].code = "C+m?" /\ \A j \in 1..(i - 1) : es[j].code # "C+m?"
CmDeltas(es) == es[CmIndex(es)].deltas

\* the number of deltas in the entries in front of the C+m? entry
PrecedingDeltaTotal(es) == SumSeq([j \in 1..(CmIndex(es) - 1) |-> Len(es[j].deltas)])

\* the calls the tags describe, the target bases counted along `order`
CallsAlong(order, r) ==
    LET occ == TargetOccurrences(order, r)
        ds == CmDeltas(r.mm_entries)
        off == PrecedingDeltaTotal(r.mm_entries)
        map == build_seq_to_ref_map(r)
    IN { [ref_pos |-> ReportPos(r.is_reverse, map[occ[OccurrenceOf(ds, k)]]) + 1,
          probability |-> <<r.ml[off + k], 255>>] :
         k \in {k \in 1..Len(ds) :
                  /\ OccurrenceOf(ds, k) <= Len(occ)
                  /\ map[occ[OccurrenceOf(ds, k)]] >= 0
                  /\ ValidCpg(r.is_reverse, r.ref_seq,
                              map[occ[OccurrenceOf(ds, k)]] - r.ref_start_pos)} }

\* the tags carry a C+m? entry with deltas and a probability for every delta
\* up to the end of that entry
TagsComplete(r) ==
    /\ HasCm(r.mm_entries)
    /\ CmDeltas(r.mm_entries) # <<>>
    /\ PrecedingDeltaTotal(r.mm_entries) + Len(CmDeltas(r.mm_entries)) <= Len(r.ml)

CmFirst(r) == r.mm_entries # <<>> /\ r.mm_entries[1].code = "C+m?"

\* C2: for a reverse-strand read the decoder walks the stored sequence from
\* right to left, so that the k-th delta and probability go to the k-th selected
\* target base counted from the right end, and every call sits on the
\* forward-strand C of its CpG (the reference base at the reported position is C
\* and the next one is G).  Stated for tags whose first entry is C+m?.
C2_ReverseWalksRightToLeft ==
    (dec.pc = "done" /\ rd.is_reverse /\ CmFirst(rd) /\ TagsComplete(rd)) =>
        /\ Range(dec.calls) = CallsAlong(OriginalOrder(TRUE, Len(rd.seq)), rd)
        /\ \A c \in Range(dec.calls) :
              LET off == c.ref_pos - 1 - rd.ref_start_pos IN
              rd.ref_seq[off + 1] = "C" /\ rd.ref_seq[off + 2] = "G"

\* C3: the index of the first probability byte used for the C+m? entry is the
\* total number of deltas of the entries in front of it.
C3_OffsetIsPrecedingDeltaTotal ==
    (dec.pc # "start" /\ HasCm(rd.mm_entries)) =>
        dec.ml_offset = PrecedingDeltaTotal(rd.mm_entries)

\* C4: the decoder's output is exactly the set of calls the tags describe: the
\* k-th delta selects the occurrence delta_k target bases after the previous
\* selected one, a call (1-based position of the CpG's C, the k-th probability
\* byte of the entry over 255) is emitted iff that base is aligned inside the
\* window in CpG context, and a rejected occurrence uses up its delta and byte.
C4_OutputIsTheDescribedSet ==
    (dec.pc = "done" /\ TagsComplete(rd)) =>
        Range(dec.calls) = CallsAlong(OriginalOrder(rd.is_reverse, Len(rd.seq)), rd)


(***************************************************************************)
(* ReadParser: the filter and the read name.                               *)
(***************************************************************************)
MinMapq == 20
MinReadLength == 1000

\* ReadParser::should_keep_with_reason: the set of reasons, empty when kept
FilterReasons(b) ==
    (IF "SECONDARY" \in b.flag THEN {"FLAG_SECONDARY"} ELSE {})
    \cup (IF "SUPPLEMENTARY" \in b.flag THEN {"FLAG_SUPPLEMENTARY"} ELSE {})
    \cup (IF "DUP" \in b.flag THEN {"FLAG_DUPLICATE"} ELSE {})
    \cup (IF "UNMAP" \in b.flag THEN {"FLAG_UNMAPPED"} ELSE {})
    \cup (IF b.qual < MinMapq THEN {"LOW_MAPQ"} ELSE {})
    \cup (IF b.qlen < MinReadLength THEN {"SHORT_READ"} ELSE {})
    \cup (IF ~b.has_mm THEN {"MISSING_MM_TAG"} ELSE {})
    \cup (IF ~b.has_ml THEN {"MISSING_ML_TAG"} ELSE {})

should_keep(b) == FilterReasons(b) = {}

\* ReadParser::parse: the read name with its paired-end suffix
ReadName(b) ==
    IF "PAIRED" \in b.flag
    THEN (IF "READ1" \in b.flag THEN b.qname \o "/1"
          ELSE IF "READ2" \in b.flag THEN b.qname \o "/2"
          ELSE b.qname)
    ELSE b.qname

determine_strand(b) == IF "REVERSE" \in b.flag THEN "REVERSE" ELSE "FORWARD"

(***************************************************************************)
(* RegionProcessor::process_single_region: the read loop.                  *)
(***************************************************************************)
QNames == {"r1", "r2"}

GoodRecord(q) ==
    [qname |-> q, flag |-> {}, qual |-> 60, qlen |-> 5000, has_mm |-> TRUE, has_ml |-> TRUE,
     alt |-> [support |-> "ALT", filter_reason |-> "NONE"]]

\* the records of a region: a good record and its one-field variations
RecordsOf(q) ==
    { GoodRecord(q),
      [GoodRecord(q) EXCEPT !.flag = {"REVERSE"}],
      [GoodRecord(q) EXCEPT !.flag = {"SUPPLEMENTARY"}],
      [GoodRecord(q) EXCEPT !.flag = {"PAIRED", "READ1"}],
      [GoodRecord(q) EXCEPT !.flag = {"PAIRED", "READ2"}],
      [GoodRecord(q) EXCEPT !.qual = 0],
      [GoodRecord(q) EXCEPT !.alt = [support |-> "UNKNOWN", filter_reason |-> "SNV_NOT_COVERED"]],
      [GoodRecord(q) EXCEPT !.alt = [support |-> "UNKNOWN", filter_reason |-> "SNV_IN_DELETION"]] }

ArchiveRecords == UNION {RecordsOf(q) : q \in QNames}

\* Config.hpp line 57: the default of clustering_min_reads
ClusteringMinReads == 10

\* the flags of the run; distance matrices and clustering are on (Config.hpp
\* lines 45 and 54), the read minimum of clustering is the default or 2
RegionInputs ==
    [reads : SeqsUpTo(ArchiveRecords, 0, MaxReads),
     ref_ok : BOOLEAN,
     no_filter_output : BOOLEAN,
     output_filtered_reads : BOOLEAN,
     compute_distance_matrix : {TRUE},
     compute_clustering : {TRUE},
     clustering_min_reads : {2, ClusteringMinReads}]

\* what MethylationParser::parse_read returns for a record of the region: the
\* calls of the molecule, as <<position, probability in tenths>>
MethylCallsOf(b) ==
    IF ~(b.has_mm /\ b.has_ml) THEN <<>>
    ELSE IF b.qname = "r1" THEN <<<<101, 10>>, <<105, 0>>, <<109, 10>>>>
    ELSE <<<<101, 10>>, <<105, 10>>, <<109, 10>>, <<113, 0>>>>

InitRegion ==
    /\ ar \in RegionInputs
    /\ rp = [RpIdle EXCEPT !.pc = "fetch"]
    /\ rd = RdIdle
    /\ dec = DecIdle
    /\ job = JobIdle
    /\ pool = PoolIdle
    /\ wk = <<>>
    /\ mx = MxIdle
    /\ dm = DmIdle
    /\ th = <<>>
    /\ cl = ClIdle
    /\ hc = HcIdle
    /\ mb = MbIdle
    /\ tc = TcIdle
    /\ av = AvIdle

\* lines 301-337 and 591-594: fetch the reads (each a record the caller owns,
\* BamReader.cpp lines 93-99) and the reference; an empty reference throws
\* and the handler sets the result
FetchRegion ==
    /\ rp.pc = "fetch"
    /\ IF ar.ref_ok
       THEN rp' = [rp EXCEPT !.pc = "loop", !.destroyed = [k \in DOMAIN ar.reads |-> 0]]
       ELSE rp' = [rp EXCEPT !.pc = "failed", !.success = FALSE,
                             !.destroyed = [k \in DOMAIN ar.reads |-> 0],
                             !.error_message = "Failed to fetch reference sequence"]
    /\ UNCHANGED <<rd, dec, ar, job, pool, wk, mx, dm, th, cl, hc, mb, tc, av>>

\* create_filtered_info
FilteredInfo(b, reasons) == [read_name |-> ReadName(b), reasons |-> reasons]

IsProcessedName_NoCheck(names, read_name) == FALSE

\* lines 366-370: the duplicate read name check
IsProcessedName(names, read_name) == read_name \in names

\* lines 339-385: one iteration of the loop over the fetched records
ReadStep ==
    /\ rp.pc = "loop"
    /\ rp.idx < Len(ar.reads)
    /\ LET b == ar.reads[rp.idx + 1]
           keep == should_keep(b)
           next == [rp EXCEPT !.idx = @ + 1]
       IN IF ~keep /\ ~ar.no_filter_output
          THEN rp' = [next EXCEPT !.filtered_reads =
                         IF ar.output_filtered_reads
                         THEN Append(@, FilteredInfo(b, FilterReasons(b))) ELSE @]
          ELSE IF b.alt.support = "UNKNOWN" /\ ~ar.no_filter_output
          THEN rp' = [next EXCEPT !.filtered_reads =
                         IF ar.output_filtered_reads
                         THEN Append(@, FilteredInfo(b, {"SNV_NOT_COVERED"})) ELSE @]
          ELSE IF IsProcessedName(rp.processed_read_names, ReadName(b))
          THEN rp' = next
          ELSE rp' = [next EXCEPT
                        !.processed_read_names = @ \cup {ReadName(b)},
                        !.reads_ = Append(@, [read_id |-> rp.read_count,
                                              read_name |-> ReadName(b),
                                              strand |-> determine_strand(b),
                                              alt_support |-> b.alt.support,
                                              methyl_calls |-> MethylCallsOf(b),
                                              src |-> rp.idx + 1]),
                        !.read_count = @ + 1,
                        !.num_forward_reads = IF determine_strand(b) = "FORWARD" THEN @ + 1 ELSE @,
                        !.num_reverse_reads = IF determine_strand(b) = "REVERSE" THEN @ + 1 ELSE @]
    /\ UNCHANGED <<rd, dec, ar, job, pool, wk, mx, dm, th, cl, hc, mb, tc, av>>

SortedPositions_Descending(reads) ==
    LET S == UNION {{c[1] : c \in Range(reads[r].methyl_calls)} : r \in DOMAIN reads}
    IN [k \in 1..Cardinality(S) |->
           CHOOSE p \in S : Cardinality({q \in S : q > p}) = k - 1]

\* MatrixBuilder.cpp lines 46-67: the sorted, de-duplicated positions
SortedPositions(reads) ==
    LET S == UNION {{c[1] : c \in Range(reads[r].methyl_calls)} : r \in DOMAIN reads}
    IN [k \in 1..Cardinality(S) |->
           CHOOSE p \in S : Cardinality({q \in S : q < p}) = k - 1]

FilledMatrix_Padded(reads, positions) == <<[c \in DOMAIN positions |-> -1]>>

\* MatrixBuilder.cpp lines 69-100: a row per read, -1 where the read has no call;
\* the calls are written in order (lines 90-98), so the last call at a position
\* is the one that stays
FilledMatrix(reads, positions) ==
    [r \in DOMAIN reads |->
        [c \in DOMAIN positions |->
            LET calls == reads[r].methyl_calls
                at == {k \in DOMAIN calls : calls[k][1] = positions[c]}
            IN IF at = {} THEN -1
               ELSE calls[CHOOSE k \in at : \A j \in at : j <= k][2]]]

\* lines 387-392: matrix_builder.finalize() and the counts of the result
FinalizeRegion ==
    /\ rp.pc = "loop"
    /\ rp.idx = Len(ar.reads)
    /\ LET positions == SortedPositions(rp.reads_)
       IN rp' = [rp EXCEPT !.pc = "finalized", !.finalized_ = TRUE,
                           !.cpg_positions_ = positions,
                           !.matrix_ = FilledMatrix(rp.reads_, positions),
                           !.num_reads = Len(rp.reads_),
                           !.num_cpgs = Len(positions)]
    /\ UNCHANGED <<rd, dec, ar, job, pool, wk, mx, dm, th, cl, hc, mb, tc, av>>

\* a record that reaches the duplicate check: it passed the filter and the
\* allele-support test, or filtering is switched off
ReachesNameCheck(b) ==
    ar.no_filter_output \/ (should_keep(b) /\ b.alt.support # "UNKNOWN")

UniqueRowNames ==
    \A i, j \in 1..Len(rp.reads_) :
        rp.reads_[i].read_name = rp.reads_[j].read_name => i = j

\* C1 as stated: no two rows carry the same read name, and the one row of a name
\* is the first record of that name the archive returned.
C1_FirstReturnedWins ==
    rp.finalized_ =>
        /\ UniqueRowNames
        /\ \A i \in 1..Len(rp.reads_) :
              \A k \in 1..Len(ar.reads) :
                  ReadName(ar.reads[k]) = rp.reads_[i].read_name => rp.reads_[i].src <= k

\* C1 amended: no two rows carry the same read name; the row of a name is the
\* first record of that name that reaches the duplicate check (it passed the
\* filter and the allele-support test, or filtering is off), and every such
\* name has a row.
C1_FirstKeptWins ==
    rp.finalized_ =>
        /\ UniqueRowNames
        /\ \A i \in 1..Len(rp.reads_) :
              /\ ReachesNameCheck(ar.reads[rp.reads_[i].src])
              /\ ReadName(ar.reads[rp.reads_[i].src]) = rp.reads_[i].read_name
              /\ \A k \in 1..Len(ar.reads) :
                    (ReachesNameCheck(ar.reads[k])
                       /\ ReadName(ar.reads[k]) = rp.reads_[i].read_name)
                    => rp.reads_[i].src <= k
        /\ \A k \in 1..Len(ar.reads) :
              ReachesNameCheck(ar.reads[k]) =>
                  \E i \in 1..Len(rp.reads_) : rp.reads_[i].read_name = ReadName(ar.reads[k])

\* two records of one name reach the duplicate check and one row came of them
C1_Witness ==
    /\ rp.finalized_
    /\ \E j, k \in 1..Len(ar.reads) :
          /\ j < k
          /\ ReachesNameCheck(ar.reads[j]) /\ ReachesNameCheck(ar.reads[k])
          /\ ReadName(ar.reads[j]) = ReadName(ar.reads[k])
          /\ \E i \in 1..Len(rp.reads_) : rp.reads_[i].src = j

(***************************************************************************)
(* RegionProcessor::process_all_regions: the worker pool.                  *)
(***************************************************************************)
ThreadCounts == {1, 2}
MetricConfigs == {<<"NHD">>, <<"NHD", "L1">>, <<"L1", "NHD">>}

\* what a region's input leads to: "ok" has two reads and a CpG (the distance
\* block runs), "few" has one read (it is skipped), "fail" has no reference
RegionKinds == {"ok", "few", "fail"}

SharedObjects == {"results", "distance_config_", "distance_metrics_", "snvs_", "chrom_index_"}

\* SomaticSnv.cpp line 48: the id of a variant is its index in the table
SnvTable(kinds) == [i \in 1..Len(kinds) |-> [snv_id |-> i - 1, kind |-> kinds[i]]]

JobInputs ==
    [snvs : {SnvTable(k) : k \in SeqsUpTo(RegionKinds, 0, MaxRegions)},
     max_snvs : {0, 1},
     num_threads : ThreadCounts,
     distance_metrics : MetricConfigs,
     bam_ok : BOOLEAN]

\* line 229
NumToProcess(j) ==
    IF j.max_snvs > 0 /\ j.max_snvs < Len(j.snvs) THEN j.max_snvs ELSE Len(j.snvs)

\* RegionProcessor.hpp lines 25-58: a default-constructed RegionResult
DefaultResult ==
    [region_id |-> -1, snv_id |-> -1, success |-> FALSE, error_message |-> "",
     num_reads |-> 0, stats_metric |-> "", outputs |-> <<>>]

WkIdle == [pc |-> "open", i |-> 0, reader |-> 0, m |-> 0, result |-> DefaultResult,
           dist_calc |-> ""]

Workers == 1..job.num_threads

InitSched ==
    /\ job \in JobInputs
    /\ pool = [phase |-> "parallel", next |-> 0,
               results |-> [i \in 1..NumToProcess(job) |-> DefaultResult],
               metric |-> job.distance_metrics[1],
               writers |-> [o \in SharedObjects |-> {}],
               readers |-> [o \in SharedObjects |-> {}],
               runs |-> [i \in 1..NumToProcess(job) |-> 0],
               by |-> [i \in 1..NumToProcess(job) |-> 0],
               handle |-> [i \in 1..NumToProcess(job) |-> 0]]
    /\ wk = [w \in 1..job.num_threads |-> WkIdle]
    /\ rd = RdIdle
    /\ dec = DecIdle
    /\ ar = ArIdle
    /\ rp = RpIdle
    /\ mx = MxIdle
    /\ dm = DmIdle
    /\ th = <<>>
    /\ cl = ClIdle
    /\ hc = HcIdle
    /\ mb = MbIdle
    /\ tc = TcIdle
    /\ av = AvIdle

Reads(p, w, objs) ==
    [o \in SharedObjects |-> IF o \in objs THEN p.readers[o] \cup {w} ELSE p.readers[o]]

Writes(p, w, objs) ==
    [o \in SharedObjects |-> IF o \in objs THEN p.writers[o] \cup {w} ELSE p.writers[o]]

ConstructorThrows_Never(j) == FALSE

\* BamReader.cpp lines 8-38: the constructor throws when the file cannot be
\* opened, or its header or its index cannot be read
ConstructorThrows(j) == ~j.bam_ok

\* lines 245-246: each worker opens its own readers; a constructor that throws
\* leaves the parallel region and the program is terminated
OpenReaders(w) ==
    /\ pool.phase = "parallel"
    /\ wk[w].pc = "open"
    /\ IF ~ConstructorThrows(job)
       THEN /\ wk' = [wk EXCEPT ![w].pc = "grab", ![w].reader = w]
            /\ pool' = pool
       ELSE /\ pool' = [pool EXCEPT !.phase = "terminated"]
            /\ wk' = wk
    /\ UNCHANGED <<rd, dec, ar, rp, job, mx, dm, th, cl, hc, mb, tc, av>>

\* line 254, schedule(dynamic): a worker takes the next unassigned iteration
Grab(w) ==
    /\ pool.phase = "parallel"
    /\ wk[w].pc = "grab"
    /\ IF pool.next < NumToProcess(job)
       THEN /\ wk' = [wk EXCEPT ![w].pc = "region", ![w].i = pool.next]
            /\ pool' = [pool EXCEPT !.next = @ + 1,
                                    !.readers = Reads(pool, w, {"snvs_", "chrom_index_"})]
       ELSE /\ wk' = [wk EXCEPT ![w].pc = "exit"]
            /\ pool' = pool
    /\ UNCHANGED <<rd, dec, ar, rp, job, mx, dm, th, cl, hc, mb, tc, av>>

\* lines 592-595: the handler of process_single_region
CatchException_Swallow(result, what) == [result EXCEPT !.success = TRUE]

CatchException(result, what) ==
    [result EXCEPT !.success = FALSE, !.error_message = what]

ReadsOfKind(kind) == IF kind = "ok" THEN 2 ELSE IF kind = "few" THEN 1 ELSE 0

\* lines 289-459: process_single_region up to the metric loop
ProcessRegion(w) ==
    /\ pool.phase = "parallel"
    /\ wk[w].pc = "region"
    /\ LET i == wk[w].i
           snv == job.snvs[i + 1]
           r0 == [DefaultResult EXCEPT !.region_id = i, !.snv_id = snv.snv_id]
       IN /\ pool' = [pool EXCEPT !.runs[i + 1] = @ + 1,
                                  !.by[i + 1] = w,
                                  !.handle[i + 1] = wk[w].reader,
                                  !.readers = IF snv.kind = "ok"
                                              THEN Reads(pool, w, {"distance_config_"})
                                              ELSE @]
          /\ IF snv.kind = "fail"
             THEN wk' = [wk EXCEPT ![w].pc = "store",
                            ![w].result = CatchException(r0, "Failed to fetch reference sequence")]
             ELSE IF snv.kind = "few"
             THEN wk' = [wk EXCEPT ![w].pc = "store",
                            ![w].result = [r0 EXCEPT !.num_reads = ReadsOfKind("few"),
                                                     !.success = TRUE]]
             ELSE wk' = [wk EXCEPT ![w].pc = "set_metric", ![w].m = 1,
                            ![w].dist_calc = pool.metric,
                            ![w].result = [r0 EXCEPT !.num_reads = ReadsOfKind("ok")]]
    /\ UNCHANGED <<rd, dec, ar, rp, job, mx, dm, th, cl, hc, mb, tc, av>>

\* line 463: distance_config_.metric = metric
SetMetric(w) ==
    /\ pool.phase = "parallel"
    /\ wk[w].pc = "set_metric"
    /\ pool' = [pool EXCEPT !.metric = job.distance_metrics[wk[w].m],
                            !.writers = Writes(pool, w, {"distance_config_"}),
                            !.readers = Reads(pool, w, {"distance_metrics_"})]
    /\ wk' = [wk EXCEPT ![w].pc = "compute"]
    /\ UNCHANGED <<rd, dec, ar, rp, job, mx, dm, th, cl, hc, mb, tc, av>>

\* lines 464-585: dist_calc = DistanceCalculator(distance_config_), the matrix
\* is computed with it, written under the loop's metric, and the loop advances
ComputeMetric(w) ==
    /\ pool.phase = "parallel"
    /\ wk[w].pc = "compute"
    /\ LET m == wk[w].m
           metric == job.distance_metrics[m]
           used == pool.metric
           r1 == [wk[w].result EXCEPT
                     !.outputs = Append(@, [label |-> metric, computed |-> used]),
                     !.stats_metric = IF metric = job.distance_metrics[1] THEN used ELSE @]
       IN IF m < Len(job.distance_metrics)
          THEN wk' = [wk EXCEPT ![w].dist_calc = used, ![w].result = r1,
                                ![w].m = m + 1, ![w].pc = "set_metric"]
          ELSE wk' = [wk EXCEPT ![w].dist_calc = used,
                                ![w].result = [r1 EXCEPT !.success = TRUE],
                                ![w].pc = "store"]
    /\ pool' = [pool EXCEPT !.readers = Reads(pool, w, {"distance_config_"})]
    /\ UNCHANGED <<rd, dec, ar, rp, job, mx, dm, th, cl, hc, mb, tc, av>>

ResultSlot_First(i) == 1

\* line 264: results[i]
ResultSlot(i) == i + 1

\* line 264: the result is assigned to its slot of the results vector
StoreResult(w) ==
    /\ pool.phase = "parallel"
    /\ wk[w].pc = "store"
    /\ pool' = [pool EXCEPT !.results[ResultSlot(wk[w].i)] = wk[w].result,
                            !.writers = Writes(pool, w, {"results"})]
    /\ wk' = [wk EXCEPT ![w].pc = "grab"]
    /\ UNCHANGED <<rd, dec, ar, rp, job, mx, dm, th, cl, hc, mb, tc, av>>

\* lines 278-286: the end of the parallel region and the return
ReturnResults ==
    /\ pool.phase = "parallel"
    /\ \A w \in Workers : wk[w].pc = "exit"
    /\ pool' = [pool EXCEPT !.phase = "returned"]
    /\ UNCHANGED <<rd, dec, ar, rp, job, wk, mx, dm, th, cl, hc, mb, tc, av>>

NextSched ==
    \/ \E w \in Workers :
          OpenReaders(w) \/ Grab(w) \/ ProcessRegion(w) \/ SetMetric(w)
          \/ ComputeMetric(w) \/ StoreResult(w)
    \/ ReturnResults

SpecSched == InitSched /\ [][NextSched]_vars

SpecSchedFair == SpecSched /\ WF_vars(NextSched)

\* the result of region i (0-based) in a run with one worker
OneWorkerResult(i) ==
    LET snv == job.snvs[i + 1]
        metrics == job.distance_metrics
        r0 == [DefaultResult EXCEPT !.region_id = i, !.snv_id = snv.snv_id,
                                    !.num_reads = ReadsOfKind(snv.kind)]
    IN IF snv.kind = "fail"
       THEN [r0 EXCEPT !.error_message = "Failed to fetch reference sequence"]
       ELSE IF snv.kind = "few"
       THEN [r0 EXCEPT !.success = TRUE]
       ELSE [r0 EXCEPT !.success = TRUE, !.stats_metric = metrics[1],
                       !.outputs = [m \in 1..Len(metrics) |->
                                       [label |-> metrics[m], computed |-> metrics[m]]]]

\* C5: for every worker count and interleaving the returned results and the
\* written outputs equal those of a run with one worker.
C5_SameAsOneWorker ==
    pool.phase = "returned" =>
        pool.results = [n \in 1..NumToProcess(job) |-> OneWorkerResult(n - 1)]

\* C6: apart from the results vector, no shared object written by a worker is
\* read or written by another worker during the parallel phase.
C6_OnlyResultsShared ==
    pool.phase \in {"parallel", "returned"} =>
        \A o \in SharedObjects \ {"results"} :
            \A w \in pool.writers[o] : (pool.writers[o] \cup pool.readers[o]) \subseteq {w}

\* C7: one result per scheduled variant; each region is processed once, by one
\* worker, with that worker's own readers; slot i holds the result of variant i.
C7_OneResultPerVariantInOrder ==
    /\ pool.phase \in {"parallel", "returned"} =>
          \A n \in 1..NumToProcess(job) : pool.runs[n] <= 1
    /\ pool.phase = "returned" =>
          /\ Len(pool.results) = NumToProcess(job)
          /\ \A n \in 1..NumToProcess(job) :
                /\ pool.runs[n] = 1
                /\ pool.by[n] \in Workers
                /\ pool.handle[n] = pool.by[n]
                /\ pool.results[n].region_id = n - 1
                /\ pool.results[n].snv_id = job.snvs[n].snv_id
                /\ pool.results[n].success = (job.snvs[n].kind # "fail")
                /\ pool.results[n].num_reads = ReadsOfKind(job.snvs[n].kind)

\* two regions were processed by different workers, the later variant by the
\* first worker
C7_Witness ==
    /\ pool.phase = "returned"
    /\ NumToProcess(job) >= 2
    /\ pool.by[1] = 2 /\ pool.by[2] = 1

C8_FailureIsCaptured ==
    pool.phase = "returned" =>
        \A n \in 1..NumToProcess(job) :
            IF job.snvs[n].kind = "fail"
            THEN /\ ~pool.results[n].success
                 /\ pool.results[n].error_message # ""
            ELSE /\ pool.results[n].success
                 /\ pool.results[n].error_message = ""
                 /\ pool.results[n].region_id = n - 1
                 /\ pool.results[n].num_reads = ReadsOfKind(job.snvs[n].kind)

SomeRegionFailed ==
    /\ pool.phase # "idle"
    /\ \E w \in Workers : wk[w].pc = "store" /\ ~wk[w].result.success

\* C8: a failing region ends with success=false and a non-empty message, every
\* other scheduled region completes with its own result, the pool is not
\* terminated, and process_all_regions returns.
C8_FailureDoesNotStopThePool ==
    /\ [](C8_FailureIsCaptured)
    /\ [](SomeRegionFailed => pool.phase # "terminated")
    /\ (SomeRegionFailed ~> pool.phase = "returned")

\* a region failed and a later region was completed successfully
C8_Witness ==
    /\ pool.phase = "returned"
    /\ \E n, k \in 1..NumToProcess(job) :
          /\ n < k
          /\ job.snvs[n].kind = "fail" /\ ~pool.results[n].success
          /\ job.snvs[k].kind = "ok" /\ pool.results[k].success

(***************************************************************************)
(* DistanceMatrix: doubles.  A double is a record: a rational n/d ("q"), *)
(* the square root of one ("sqrt"), a correlation distance (1 - s*sqrt(n/d))/2 *)
(* ("corr"), or NaN ("nan").  Comparisons follow IEEE 754: every comparison *)
(* with NaN is false.  Rounding is not modelled.                           *)
(***************************************************************************)
Abs(x) == IF x < 0 THEN -x ELSE x

RECURSIVE GCD(_, _)
GCD(a, b) == IF b = 0 THEN a ELSE GCD(b, a % b)

IsSquare(n) == \E x \in 0..n : x * x = n
ISqrt(n) == CHOOSE x \in 0..n : x * x = n

NaN == [k |-> "nan", s |-> 0, n |-> 0, d |-> 1]

Q(n, d) ==
    LET g == GCD(Abs(n), d) IN [k |-> "q", s |-> 0, n |-> n \div g, d |-> d \div g]

\* std::sqrt of the rational n/d
Sqrt(n, d) ==
    LET g == GCD(n, d)
        a == n \div g
        b == d \div g
    IN IF IsSquare(a) /\ IsSquare(b) THEN Q(ISqrt(a), ISqrt(b))
       ELSE [k |-> "sqrt", s |-> 0, n |-> a, d |-> b]

\* x < 0
IsNegative(x) ==
    CASE x.k = "q" -> x.n < 0
      [] x.k = "corr" -> x.s = 1 /\ x.n > x.d
      [] OTHER -> FALSE

\* x >= 0
Geq0(x) == x.k # "nan" /\ ~IsNegative(x)

\* x == y
DoubleEq(x, y) == x.k # "nan" /\ y.k # "nan" /\ x = y

(***************************************************************************)
(* DistanceMatrix: the kernels.  Raw methylation values are in tenths;     *)
(* RawNaN is the missing value of the raw matrix.                          *)
(***************************************************************************)
RawNaN == -1

Cols(row_i) == 1..Len(row_i)

BothBinary(bi, bj) == {k \in Cols(bi) : bi[k] # -1 /\ bj[k] # -1}
BothRaw(ri, rj) == {k \in Cols(ri) : ri[k] # RawNaN /\ rj[k] # RawNaN}

\* the sum of f[k] over the columns in S
SumOver(f, S) == SumSeq([k \in 1..Len(f) |-> IF k \in S THEN f[k] ELSE 0])

Invalid(common) == [dist |-> Q(-1, 1), common_count |-> common]

calculate_nhd_AllColumns(bi, bj, min_cov) ==
    LET common == Cardinality(BothBinary(bi, bj))
        diff == Cardinality({k \in Cols(bi) : bi[k] # bj[k]})
    IN IF common < min_cov THEN Invalid(common)
       ELSE [dist |-> Q(diff, Len(bi)), common_count |-> common]

\* lines 31-55
calculate_nhd(bi, bj, min_cov) ==
    LET common == Cardinality(BothBinary(bi, bj))
        diff == Cardinality({k \in BothBinary(bi, bj) : bi[k] # bj[k]})
    IN IF common < min_cov THEN Invalid(common)
       ELSE [dist |-> IF common = 0 THEN NaN ELSE Q(diff, common), common_count |-> common]

\* lines 62-83
calculate_l1(ri, rj, min_cov) ==
    LET S == BothRaw(ri, rj)
        common == Cardinality(S)
        sum_diff == SumOver([k \in Cols(ri) |-> Abs(ri[k] - rj[k])], S)
    IN IF common < min_cov THEN Invalid(common)
       ELSE [dist |-> IF common = 0 THEN NaN ELSE Q(sum_diff, 10 * common),
             common_count |-> common]

\* lines 90-112
calculate_l2(ri, rj, min_cov) ==
    LET S == BothRaw(ri, rj)
        common == Cardinality(S)
        sum_sq_diff == SumOver([k \in Cols(ri) |-> (ri[k] - rj[k]) * (ri[k] - rj[k])], S)
    IN IF common < min_cov THEN Invalid(common)
       ELSE [dist |-> IF common = 0 THEN NaN ELSE Sqrt(sum_sq_diff, 100 * common),
             common_count |-> common]

\* line 169: corr = max(-1, min(1, corr)), on the square of the magnitude
ClampSq(n, d) == IF n > d THEN <<1, 1>> ELSE <<n, d>>

\* (1.0 - corr) / 2.0 for corr = sign * sqrt(n/d)
CorrDistance(sign, n, d) ==
    LET c == ClampSq(n, d)
        g == GCD(c[1], c[2])
        a == c[1] \div g
        b == c[2] \div g
    IN IF IsSquare(a) /\ IsSquare(b)
       THEN Q(ISqrt(b) - sign * ISqrt(a), 2 * ISqrt(b))
       ELSE [k |-> "corr", s |-> sign, n |-> a, d |-> b]

calculate_corr_NoZeroVariance(ri, rj, min_cov, center) ==
    LET S == BothRaw(ri, rj)
        common == Cardinality(S)
        sum_i == SumOver(ri, S)
        sum_j == SumOver(rj, S)
        di == [k \in Cols(ri) |-> IF center THEN common * ri[k] - sum_i ELSE ri[k]]
        dj == [k \in Cols(ri) |-> IF center THEN common * rj[k] - sum_j ELSE rj[k]]
        sum_prod == SumOver([k \in Cols(ri) |-> di[k] * dj[k]], S)
        sum_sq_i == SumOver([k \in Cols(ri) |-> di[k] * di[k]], S)
        sum_sq_j == SumOver([k \in Cols(ri) |-> dj[k] * dj[k]], S)
        sign == IF sum_prod > 0 THEN 1 ELSE IF sum_prod < 0 THEN -1 ELSE 0
    IN IF common < min_cov \/ common < 3 THEN Invalid(common)
       ELSE IF sum_sq_i = 0 \/ sum_sq_j = 0 THEN [dist |-> NaN, common_count |-> common]
       ELSE [dist |-> CorrDistance(sign, sum_prod * sum_prod, sum_sq_i * sum_sq_j),
             common_count |-> common]

\* lines 121-175: the deviations are scaled by the common count
calculate_corr(ri, rj, min_cov, center) ==
    LET S == BothRaw(ri, rj)
        common == Cardinality(S)
        sum_i == SumOver(ri, S)
        sum_j == SumOver(rj, S)
        di == [k \in Cols(ri) |-> IF center THEN common * ri[k] - sum_i ELSE ri[k]]
        dj == [k \in Cols(ri) |-> IF center THEN common * rj[k] - sum_j ELSE rj[k]]
        sum_prod == SumOver([k \in Cols(ri) |-> di[k] * dj[k]], S)
        sum_sq_i == SumOver([k \in Cols(ri) |-> di[k] * di[k]], S)
        sum_sq_j == SumOver([k \in Cols(ri) |-> dj[k] * dj[k]], S)
        sign == IF sum_prod > 0 THEN 1 ELSE IF sum_prod < 0 THEN -1 ELSE 0
    IN IF common < min_cov \/ common < 3 THEN Invalid(common)
       ELSE IF sum_sq_i = 0 \/ sum_sq_j = 0 THEN [dist |-> Q(1, 1), common_count |-> common]
       ELSE [dist |-> CorrDistance(sign, sum_prod * sum_prod, sum_sq_i * sum_sq_j),
             common_count |-> common]

\* lines 185-234
calculate_jaccard(bi, bj, min_cov, include_unmeth) ==
    LET S == BothBinary(bi, bj)
        common == Cardinality(S)
        intersection == IF include_unmeth
                        THEN Cardinality({k \in S : bi[k] = bj[k]})
                        ELSE Cardinality({k \in S : bi[k] = 1 /\ bj[k] = 1})
        union_size == IF include_unmeth
                      THEN common
                      ELSE Cardinality({k \in S : bi[k] = 1 \/ bj[k] = 1})
    IN IF common < min_cov THEN Invalid(common)
       ELSE IF union_size = 0 THEN [dist |-> Q(0, 1), common_count |-> common]
       ELSE [dist |-> Q(union_size - intersection, union_size), common_count |-> common]

\* lines 254-302
calculate_bernoulli(ri, rj, min_cov) ==
    LET S == BothRaw(ri, rj)
        common == Cardinality(S)
        w == [k \in Cols(ri) |-> Abs(2 * ri[k] - 10) * Abs(2 * rj[k] - 10)]
        delta == [k \in Cols(ri) |-> ri[k] * (10 - rj[k]) + (10 - ri[k]) * rj[k]]
        sum_weighted_diff == SumOver([k \in Cols(ri) |-> w[k] * delta[k]], S)
        sum_weights == SumOver(w, S)
    IN IF common < min_cov THEN Invalid(common)
       ELSE IF sum_weights = 0 THEN Invalid(common)
       ELSE [dist |-> Q(sum_weighted_diff, 100 * sum_weights), common_count |-> common]

\* lines 307-351
calculate_distance_impl(mat, row_i, row_j, config) ==
    CASE config.metric = "NHD" ->
            calculate_nhd(mat.binary_matrix[row_i], mat.binary_matrix[row_j],
                          config.min_common_coverage)
      [] config.metric = "L1" ->
            calculate_l1(mat.raw_matrix[row_i], mat.raw_matrix[row_j],
                         config.min_common_coverage)
      [] config.metric = "L2" ->
            calculate_l2(mat.raw_matrix[row_i], mat.raw_matrix[row_j],
                         config.min_common_coverage)
      [] config.metric = "CORR" ->
            calculate_corr(mat.raw_matrix[row_i], mat.raw_matrix[row_j],
                           config.min_common_coverage, config.pearson_center)
      [] config.metric = "JACCARD" ->
            calculate_jaccard(mat.binary_matrix[row_i], mat.binary_matrix[row_j],
                              config.min_common_coverage, config.jaccard_include_unmeth)
      [] config.metric = "BERNOULLI" ->
            calculate_bernoulli(mat.raw_matrix[row_i], mat.raw_matrix[row_j],
                                config.min_common_coverage)
      [] OTHER -> Invalid(0)

(***************************************************************************)
(* DistanceMatrix::compute_subset and its callers.                         *)
(***************************************************************************)
\* the row patterns of the model's matrices, by column k (-1: no coverage)
RowPattern(p, k) ==
    CASE p = 1 -> -1
      [] p = 2 -> 10
      [] p = 3 -> 0
      [] p = 4 -> IF k % 2 = 1 THEN 10 ELSE 0
      [] p = 5 -> IF k <= 2 THEN 10 ELSE -1
      [] p = 6 -> IF k = 1 THEN 5 ELSE 10
      [] p = 7 -> IF k = 1 THEN 0 ELSE IF k = 2 THEN 5 ELSE 10
      [] p = 8 -> IF k = 1 THEN 10 ELSE IF k = 2 THEN 5 ELSE 0
      [] OTHER -> 5

\* MatrixBuilder's matrix: n rows of c columns, the patterns start, start+stride, ...
BuilderMatrix(start, stride, n, c) ==
    [r \in 1..n |-> [k \in 1..c |-> RowPattern(((start + (r - 1) * stride) % 9) + 1, k)]]

BuilderMatrices ==
    {BuilderMatrix(start, stride, n, MaxCols) :
        start \in 0..8, stride \in 0..4, n \in 0..MaxRows}

StrandPatterns ==
    {<<"FORWARD", "FORWARD", "FORWARD", "FORWARD">>,
     <<"FORWARD", "REVERSE", "FORWARD", "REVERSE">>,
     <<"REVERSE", "UNKNOWN", "REVERSE", "FORWARD">>}

\* RegionProcessor.cpp lines 437-455: the raw and the binary matrix
ToRaw(val) == IF val < 0 THEN RawNaN ELSE val
ToBinary(val) == IF val < 0 THEN -1 ELSE IF val >= 8 THEN 1 ELSE IF val <= 2 THEN 0 ELSE -1

MethylationMatrixOf(raw) ==
    [read_ids |-> [r \in 1..Len(raw) |-> r - 1],
     raw_matrix |-> [r \in 1..Len(raw) |-> [k \in 1..Len(raw[r]) |-> ToRaw(raw[r][k])]],
     binary_matrix |-> [r \in 1..Len(raw) |-> [k \in 1..Len(raw[r]) |-> ToBinary(raw[r][k])]]]

MetricVariants ==
    [metric : {"NHD", "L1", "L2", "BERNOULLI"}, pearson_center : {TRUE},
     jaccard_include_unmeth : {FALSE}]
    \cup [metric : {"CORR"}, pearson_center : BOOLEAN, jaccard_include_unmeth : {FALSE}]
    \cup [metric : {"JACCARD"}, pearson_center : {TRUE}, jaccard_include_unmeth : BOOLEAN]

DistanceConfigOf(mv, strategy, min_cov, max_dist, threads) ==
    [metric |-> mv.metric, pearson_center |-> mv.pearson_center,
     jaccard_include_unmeth |-> mv.jaccard_include_unmeth,
     nan_strategy |-> strategy, min_common_coverage |-> min_cov,
     max_distance_value |-> max_dist, num_threads |-> threads]

\* every metric and strategy with one thread; NHD with two threads
DistanceConfigs ==
    {DistanceConfigOf(mv, st, mc, Q(1, 1), 1) :
        mv \in MetricVariants, st \in {"MAX_DIST", "SKIP"}, mc \in {1, 2, 3}}
    \cup {DistanceConfigOf(mv, st, 3, Q(2, 1), 2) :
        mv \in {x \in MetricVariants : x.metric = "NHD"}, st \in {"MAX_DIST", "SKIP"}}

\* Config.hpp lines 32-33 and Config.cpp lines 100-109: the configured
\* thresholds in tenths, the default pair first; validate() takes a pair with
\* low < high and both within [0, 1]
DefaultThresholds == [binary_methyl_high |-> 8, binary_methyl_low |-> 2]

ThresholdPairs ==
    {DefaultThresholds,
     [binary_methyl_high |-> 5, binary_methyl_low |-> 2],
     [binary_methyl_high |-> 10, binary_methyl_low |-> 5],
     [binary_methyl_high |-> 6, binary_methyl_low |-> 4]}

\* every matrix, strand pattern, configuration and call under the default
\* thresholds
DistanceInputs ==
    {[methyl_mat |-> MethylationMatrixOf(raw),
      strands |-> SubSeq(sp, 1, Len(raw)),
      config |-> cfg,
      call |-> call,
      thresholds |-> DefaultThresholds] :
        raw \in BuilderMatrices, sp \in StrandPatterns, cfg \in DistanceConfigs,
        call \in {"all", "forward", "reverse"}}

\* the other threshold pairs with the all-reads NHD call
ConfiguredThresholdInputs ==
    {[methyl_mat |-> MethylationMatrixOf(raw),
      strands |-> SubSeq(sp, 1, Len(raw)),
      config |-> DistanceConfigOf([metric |-> "NHD", pearson_center |-> TRUE,
                                  jaccard_include_unmeth |-> FALSE],
                                 "MAX_DIST", 1, Q(1, 1), 1),
      call |-> "all",
      thresholds |-> t] :
        raw \in BuilderMatrices, sp \in StrandPatterns,
        t \in ThresholdPairs \ {DefaultThresholds}}

ThIdle == [pc |-> "grab", i |-> 0, j |-> 0, dist |-> Q(0, 1), pairs |-> 0]

InitDistance ==
    /\ mx \in DistanceInputs \/ mx \in ConfiguredThresholdInputs
    /\ dm = [DmIdle EXCEPT !.phase = "call"]
    /\ th = [t \in 1..mx.config.num_threads |-> ThIdle]
    /\ rd = RdIdle
    /\ dec = DecIdle
    /\ ar = ArIdle
    /\ rp = RpIdle
    /\ job = JobIdle
    /\ pool = PoolIdle
    /\ wk = <<>>
    /\ cl = ClIdle
    /\ hc = HcIdle
    /\ mb = MbIdle
    /\ tc = TcIdle
    /\ av = AvIdle

\* lines 377-381 and 568-579: the row indices (0-based) of the call
IndicesOfStrand(strands, s) ==
    SelectSeq([r \in 1..Len(strands) |-> r - 1], LAMBDA x : strands[x + 1] = s)

RowIndicesOf(in) ==
    CASE in.call = "all" -> [r \in 1..Len(in.methyl_mat.read_ids) |-> r - 1]
      [] in.call = "forward" -> IndicesOfStrand(in.strands, "FORWARD")
      [] OTHER -> IndicesOfStrand(in.strands, "REVERSE")

\* lines 391-418 (and 584-590: a strand without rows is not computed)
BeginCompute ==
    /\ dm.phase = "call"
    /\ LET idx == RowIndicesOf(mx)
           n == Len(idx)
       IN IF mx.call # "all" /\ n = 0
          THEN dm' = [dm EXCEPT !.phase = "done"]
          ELSE dm' = [dm EXCEPT
                        !.phase = "loop",
                        !.row_indices = idx,
                        !.read_ids = [r \in 1..n |-> mx.methyl_mat.read_ids[idx[r] + 1]],
                        !.dist_matrix = [r \in 1..n |-> [c \in 1..n |-> Q(0, 1)]]]
    /\ UNCHANGED <<rd, dec, ar, rp, job, pool, wk, mx, th, cl, hc, mb, tc, av>>

JStart_Diagonal(i) == i

\* line 422: j starts at i + 1
JStart(i) == i + 1

\* line 421, schedule(dynamic): a thread takes the next row i
GrabRow(t) ==
    /\ dm.phase = "loop"
    /\ th[t].pc = "grab"
    /\ IF dm.next_i < Len(dm.row_indices)
       THEN /\ dm' = [dm EXCEPT !.next_i = @ + 1]
            /\ th' = [th EXCEPT ![t].i = dm.next_i, ![t].j = JStart(dm.next_i),
                                ![t].pc = IF JStart(dm.next_i) < Len(dm.row_indices)
                                          THEN "pair" ELSE "grab"]
       ELSE /\ dm' = dm
            /\ th' = [th EXCEPT ![t].pc = "exit"]
    /\ UNCHANGED <<rd, dec, ar, rp, job, pool, wk, mx, cl, hc, mb, tc, av>>

NanVal_AlwaysMax(config) == config.max_distance_value

\* lines 407-410
NanVal(config) == IF config.nan_strategy = "SKIP" THEN NaN ELSE config.max_distance_value

\* lines 423-434: the kernel and the atomic counters
CountPair(t) ==
    /\ dm.phase = "loop"
    /\ th[t].pc = "pair"
    /\ LET r == calculate_distance_impl(mx.methyl_mat, dm.row_indices[th[t].i + 1] + 1,
                                        dm.row_indices[th[t].j + 1] + 1, mx.config)
       IN IF IsNegative(r.dist)
          THEN /\ dm' = [dm EXCEPT !.invalid_pairs = @ + 1]
               /\ th' = [th EXCEPT ![t].dist = NanVal(mx.config), ![t].pc = "write",
                                   ![t].pairs = @ + 1]
          ELSE /\ dm' = [dm EXCEPT !.valid_pairs = @ + 1,
                                   !.total_common_coverage = @ + r.common_count]
               /\ th' = [th EXCEPT ![t].dist = r.dist, ![t].pc = "write",
                                   ![t].pairs = @ + 1]
    /\ UNCHANGED <<rd, dec, ar, rp, job, pool, wk, mx, cl, hc, mb, tc, av>>

MirrorCell_Same(i, j) == <<i, j>>

\* line 437: the mirrored cell of (i, j)
MirrorCell(i, j) == <<j, i>>

\* lines 436-438: both cells are written and j advances
WriteCells(t) ==
    /\ dm.phase = "loop"
    /\ th[t].pc = "write"
    /\ LET i == th[t].i + 1
           j == th[t].j + 1
           m == MirrorCell(i, j)
       IN dm' = [dm EXCEPT !.dist_matrix =
                    [[@ EXCEPT ![i][j] = th[t].dist] EXCEPT ![m[1]][m[2]] = th[t].dist]]
    /\ th' = [th EXCEPT ![t].j = @ + 1,
                        ![t].pc = IF th[t].j + 1 < Len(dm.row_indices) THEN "pair" ELSE "grab"]
    /\ UNCHANGED <<rd, dec, ar, rp, job, pool, wk, mx, cl, hc, mb, tc, av>>

\* lines 442-449: the statistics are stored after the loop
StoreStatistics ==
    /\ dm.phase = "loop"
    /\ \A t \in DOMAIN th : th[t].pc = "exit"
    /\ dm' = [dm EXCEPT !.phase = "done",
                        !.num_valid_pairs = dm.valid_pairs,
                        !.num_invalid_pairs = dm.invalid_pairs,
                        !.avg_common_coverage =
                            IF dm.valid_pairs > 0
                            THEN Q(dm.total_common_coverage, dm.valid_pairs) ELSE @]
    /\ UNCHANGED <<rd, dec, ar, rp, job, pool, wk, mx, th, cl, hc, mb, tc, av>>

NextDistance ==
    \/ BeginCompute
    \/ \E t \in DOMAIN th : GrabRow(t) \/ CountPair(t) \/ WriteCells(t)
    \/ StoreStatistics

SpecDistance == InitDistance /\ [][NextDistance]_vars

N == Len(dm.read_ids)

\* the kernel's verdict on rows i, j of the computed matrix
KernelOf(i, j) ==
    calculate_distance_impl(mx.methyl_mat, dm.row_indices[i] + 1, dm.row_indices[j] + 1,
                            mx.config)

\* C9 as stated: every produced matrix is symmetric, has a zero diagonal and
\* no negative cell, as comparisons of doubles.
C9_SymmetricZeroDiagonalNonNegative ==
    dm.phase = "done" =>
        \A i, j \in 1..N :
            /\ DoubleEq(dm.dist_matrix[i][j], dm.dist_matrix[j][i])
            /\ DoubleEq(dm.dist_matrix[i][i], Q(0, 1))
            /\ Geq0(dm.dist_matrix[i][j])

\* C9 amended: the diagonal is zero; the two cells of a pair hold the same
\* double; the cells of a valid pair are >= 0; the cells of an invalid pair hold
\* max_distance_value (>= 0) under MAX_DIST and NaN under SKIP, and NaN occurs
\* nowhere else.
C9_SymmetricUpToNaN ==
    dm.phase = "done" =>
        \A i, j \in 1..N :
            /\ dm.dist_matrix[i][j] = dm.dist_matrix[j][i]
            /\ DoubleEq(dm.dist_matrix[i][i], Q(0, 1))
            /\ i # j =>
                  IF IsNegative(KernelOf(i, j).dist)
                  THEN IF mx.config.nan_strategy = "SKIP"
                       THEN dm.dist_matrix[i][j] = NaN
                       ELSE /\ DoubleEq(dm.dist_matrix[i][j], mx.config.max_distance_value)
                            /\ Geq0(dm.dist_matrix[i][j])
                  ELSE Geq0(dm.dist_matrix[i][j])

\* a matrix with a NaN pair under SKIP and a valid pair of positive distance
C9_Witness ==
    /\ dm.phase = "done"
    /\ mx.config.nan_strategy = "SKIP"
    /\ \E i, j \in 1..N : i < j /\ dm.dist_matrix[j][i] = NaN
    /\ \E i, j \in 1..N : i < j /\ Geq0(dm.dist_matrix[j][i])
                          /\ ~DoubleEq(dm.dist_matrix[j][i], Q(0, 1))

\* C10: after the computation valid_pairs + invalid_pairs = N(N-1)/2, with one
\* thread and with several.
C10_PairCountsAddUp ==
    dm.phase = "done" =>
        /\ 2 * (dm.num_valid_pairs + dm.num_invalid_pairs) = N * (N - 1)
        /\ dm.num_valid_pairs = dm.valid_pairs
        /\ dm.num_invalid_pairs = dm.invalid_pairs

\* two threads each counted a pair, and both kinds of pair were counted
C10_Witness ==
    /\ dm.phase = "done"
    /\ N >= 3
    /\ \A t \in {1, 2} : t \in DOMAIN th /\ th[t].pairs >= 1
    /\ dm.num_valid_pairs >= 1 /\ dm.num_invalid_pairs >= 1

(***************************************************************************)
(* The coverage boundary.                                                  *)
(***************************************************************************)
BinaryMetrics == {"NHD", "JACCARD"}

\* the number of columns in which rows i and j of the computed matrix both
\* carry valid data, in the matrix the metric reads
CommonCoverage(i, j) ==
    LET a == dm.row_indices[i] + 1
        b == dm.row_indices[j] + 1
    IN IF mx.config.metric \in BinaryMetrics
       THEN Cardinality({k \in 1..MaxCols : mx.methyl_mat.binary_matrix[a][k] # -1
                                            /\ mx.methyl_mat.binary_matrix[b][k] # -1})
       ELSE Cardinality({k \in 1..MaxCols : mx.methyl_mat.raw_matrix[a][k] >= 0
                                            /\ mx.methyl_mat.raw_matrix[b][k] >= 0})

\* what an invalid pair's cells hold under the configured strategy
Substitute ==
    IF mx.config.nan_strategy = "SKIP" THEN NaN ELSE mx.config.max_distance_value

\* the documented per-metric reasons for a pair with enough coverage to be
\* invalid: correlation needs three common columns, Bernoulli a non-zero weight
MetricRefuses(i, j) ==
    LET a == dm.row_indices[i] + 1
        b == dm.row_indices[j] + 1
    IN \/ mx.config.metric = "CORR" /\ CommonCoverage(i, j) < 3
       \/ /\ mx.config.metric = "BERNOULLI"
          /\ \A k \in 1..MaxCols :
                (mx.methyl_mat.raw_matrix[a][k] >= 0 /\ mx.methyl_mat.raw_matrix[b][k] >= 0)
                => (mx.methyl_mat.raw_matrix[a][k] = 5 \/ mx.methyl_mat.raw_matrix[b][k] = 5)

UpperPairs == {p \in (1..N) \X (1..N) : p[1] < p[2]}

\* C11 as stated: for every metric a pair with common coverage C_min - 1 holds
\* the substitute and a pair with common coverage exactly C_min is valid and
\* holds the kernel's distance.
C11_BoundaryEveryMetric ==
    dm.phase = "done" =>
        \A p \in UpperPairs :
            /\ CommonCoverage(p[1], p[2]) = mx.config.min_common_coverage - 1
                  => dm.dist_matrix[p[1]][p[2]] = Substitute
            /\ CommonCoverage(p[1], p[2]) = mx.config.min_common_coverage
                  => /\ ~IsNegative(KernelOf(p[1], p[2]).dist)
                     /\ dm.dist_matrix[p[1]][p[2]] = KernelOf(p[1], p[2]).dist

\* C11 amended: a pair with common coverage C_min - 1 is invalid for every
\* metric; a pair with common coverage exactly C_min is valid and holds the
\* kernel's distance unless the metric refuses it (correlation below three
\* common columns, Bernoulli with zero total weight), in which case it is
\* invalid too; invalid pairs hold the substitute and are the ones counted in
\* invalid_pairs.
C11_BoundaryUnlessMetricRefuses ==
    dm.phase = "done" =>
        /\ \A p \in UpperPairs :
              /\ CommonCoverage(p[1], p[2]) = mx.config.min_common_coverage - 1
                    => dm.dist_matrix[p[1]][p[2]] = Substitute
              /\ CommonCoverage(p[1], p[2]) = mx.config.min_common_coverage
                    => IF MetricRefuses(p[1], p[2])
                       THEN dm.dist_matrix[p[1]][p[2]] = Substitute
                       ELSE /\ ~IsNegative(KernelOf(p[1], p[2]).dist)
                            /\ dm.dist_matrix[p[1]][p[2]] = KernelOf(p[1], p[2]).dist
        /\ dm.num_invalid_pairs =
              Cardinality({p \in UpperPairs :
                              \/ CommonCoverage(p[1], p[2]) < mx.config.min_common_coverage
                              \/ MetricRefuses(p[1], p[2])})

\* one pair sits at C_min - 1 and holds NaN, another sits at C_min and holds a
\* kernel distance
C11_Witness ==
    /\ dm.phase = "done"
    /\ mx.config.nan_strategy = "SKIP"
    /\ \E p \in UpperPairs :
          /\ CommonCoverage(p[1], p[2]) = mx.config.min_common_coverage - 1
          /\ dm.dist_matrix[p[1]][p[2]] = NaN
    /\ \E p \in UpperPairs :
          /\ CommonCoverage(p[1], p[2]) = mx.config.min_common_coverage
          /\ dm.dist_matrix[p[1]][p[2]] # NaN

(***************************************************************************)
(* The NHD formula.                                                        *)
(***************************************************************************)
BinaryRow(i) == mx.methyl_mat.binary_matrix[dm.row_indices[i] + 1]

BothCalled(i, j) ==
    {k \in 1..MaxCols : BinaryRow(i)[k] \in {0, 1} /\ BinaryRow(j)[k] \in {0, 1}}

Differing(i, j) == {k \in BothCalled(i, j) : BinaryRow(i)[k] # BinaryRow(j)[k]}

\* C12: the NHD distance of a valid pair is the number of columns in which both
\* rows are 0/1 and differ, divided by the number of columns in which both rows
\* are 0/1; a column with a -1 in either row is in neither count.
C12_NhdIsDifferingOverCommon ==
    (dm.phase = "done" /\ mx.config.metric = "NHD") =>
        \A p \in UpperPairs :
            Cardinality(BothCalled(p[1], p[2])) >= mx.config.min_common_coverage =>
                LET cell == dm.dist_matrix[p[1]][p[2]] IN
                /\ cell.k = "q"
                /\ cell.n * Cardinality(BothCalled(p[1], p[2]))
                      = Cardinality(Differing(p[1], p[2])) * cell.d

\* a valid NHD pair with a -1 column and a distance strictly between 0 and 1
C12_Witness ==
    /\ dm.phase = "done" /\ mx.config.metric = "NHD"
    /\ \E p \in UpperPairs :
          /\ Cardinality(BothCalled(p[1], p[2])) >= mx.config.min_common_coverage
          /\ Cardinality(BothCalled(p[1], p[2])) < MaxCols
          /\ Differing(p[1], p[2]) # {}
          /\ Differing(p[1], p[2]) # BothCalled(p[1], p[2])
          /\ dm.dist_matrix[p[1]][p[2]] = Q(Cardinality(Differing(p[1], p[2])),
                                            Cardinality(BothCalled(p[1], p[2])))

(***************************************************************************)
(* Constant rows.                                                          *)
(***************************************************************************)
RawRow(i) == mx.methyl_mat.raw_matrix[dm.row_indices[i] + 1]

\* rows i and j carry the same value v in every column
SameConstant(i, j, v) == \A k \in 1..MaxCols : RawRow(i)[k] = v /\ RawRow(j)[k] = v

RawValues == {0, 5, 10}

StrandOfCall == IF mx.call = "forward" THEN "FORWARD" ELSE "REVERSE"

\* the rows (1-based) of the methylation matrix on strand s
RowsOnStrand(s) == {r \in 1..Len(mx.strands) : mx.strands[r] = s}

\* what the configured kernel and strategy give for rows a, b of the
\* methylation matrix
PairValue(a, b) ==
    LET r == calculate_distance_impl(mx.methyl_mat, a, b, mx.config)
    IN IF IsNegative(r.dist) THEN Substitute ELSE r.dist

\* the computed matrix is the kernel applied to exactly the rows in S, in
\* ascending order
IsSubMatrixOf(S) ==
    /\ Len(dm.read_ids) = Cardinality(S)
    /\ Range(dm.read_ids) = {r - 1 : r \in S}
    /\ \A p \in UpperPairs :
          /\ dm.read_ids[p[1]] < dm.read_ids[p[2]]
          /\ dm.dist_matrix[p[1]][p[2]]
                = PairValue(dm.read_ids[p[1]] + 1, dm.read_ids[p[2]] + 1)

\* C14: the forward sub-matrix is the kernel applied to exactly the FORWARD
\* rows and the reverse sub-matrix to exactly the REVERSE rows (UNKNOWN rows are
\* in neither), and a strand with fewer than 2 rows yields an empty sub-matrix.
C14_StrandSplit ==
    (dm.phase = "done" /\ mx.call # "all") =>
        IF Cardinality(RowsOnStrand(StrandOfCall)) < 2
        THEN dm.read_ids = <<>> /\ dm.dist_matrix = <<>>
        ELSE IsSubMatrixOf(RowsOnStrand(StrandOfCall))

(***************************************************************************)
(* HierarchicalClustering::build_tree and the merge loop of build_generic. *)
(* A height is a double v plus a count e of min_branch_length (1e-6): two  *)
(* distinct linkage heights of the model's matrices differ by far more     *)
(* than MaxLeaves * 1e-6, so heights compare by v first and by e next.     *)
(***************************************************************************)
MaxLeaves == 4

\* std::numeric_limits<double>::max()
DBL_MAX == [k |-> "max", s |-> 0, n |-> 0, d |-> 1]

\* the square of a non-negative double, as a numerator and a denominator
SqNum(x) == IF x.k = "q" THEN x.n * x.n ELSE x.n
SqDen(x) == IF x.k = "q" THEN x.d * x.d ELSE x.d

\* x < y for non-negative doubles
Less(x, y) ==
    CASE x.k = "nan" \/ y.k = "nan" -> FALSE
      [] x.k = "max" -> FALSE
      [] y.k = "max" -> TRUE
      [] x.k = "q" /\ y.k = "q" -> x.n * y.d < y.n * x.d
      [] OTHER -> SqNum(x) * SqDen(y) < SqNum(y) * SqDen(x)

\* x + y, x * y and x / k for rationals and NaN
Plus(x, y) ==
    IF x.k = "nan" \/ y.k = "nan" THEN NaN ELSE Q(x.n * y.d + y.n * x.d, x.d * y.d)
Times(x, y) ==
    IF x.k = "nan" \/ y.k = "nan" THEN NaN ELSE Q(x.n * y.n, x.d * y.d)
DivideBy(x, k) == IF x.k = "nan" THEN NaN ELSE Q(x.n, x.d * k)

\* std::min(a, b) and std::max(a, b)
StdMin(a, b) == IF Less(b, a) THEN b ELSE a
StdMax(a, b) == IF Less(a, b) THEN b ELSE a

H(v, e) == [v |-> v, e |-> e]
HeightZero == H(Q(0, 1), 0)
HeightLess(x, y) == Less(x.v, y.v) \/ (x.v = y.v /\ x.e < y.e)
HeightMax(x, y) == IF HeightLess(x, y) THEN y ELSE x
\* h + config_.min_branch_length
PlusMinBranchLength(h) == H(h.v, h.e + 1)

Methods == {"UPGMA", "WARD", "SINGLE", "COMPLETE"}

\* the matrix compute_subset leaves for all rows of mat, zero diagonal included
ComputedMatrix(mat, config) ==
    LET n == Len(mat.read_ids)
        cell(i, j) ==
            LET r == calculate_distance_impl(mat, i, j, config)
            IN IF IsNegative(r.dist) THEN NanVal(config) ELSE r.dist
    IN [i \in 1..n |-> [j \in 1..n |->
            IF i = j THEN Q(0, 1) ELSE IF i < j THEN cell(i, j) ELSE cell(j, i)]]

\* test_hierarchical_clustering.cpp: dist_4x4 and the matrix of identical distances
Dist4x4 ==
    <<<<Q(0, 1), Q(2, 1), Q(4, 1), Q(6, 1)>>,
      <<Q(2, 1), Q(0, 1), Q(4, 1), Q(6, 1)>>,
      <<Q(4, 1), Q(4, 1), Q(0, 1), Q(2, 1)>>,
      <<Q(6, 1), Q(6, 1), Q(2, 1), Q(0, 1)>>>>

ConstantMatrix(n, v) == [i \in 1..n |-> [j \in 1..n |-> IF i = j THEN Q(0, 1) ELSE v]]

ClusterMatrices ==
    {ComputedMatrix(MethylationMatrixOf(BuilderMatrix(start, stride, n, MaxCols)),
                    DistanceConfigOf([metric |-> m, pearson_center |-> TRUE,
                                      jaccard_include_unmeth |-> FALSE],
                                     st, mc, Q(1, 1), 1)) :
        start \in 0..8, stride \in 0..4, n \in 0..MaxLeaves, m \in {"NHD", "L1"},
        st \in {"MAX_DIST", "SKIP"}, mc \in {1, 3}}
    \cup {Dist4x4}
    \cup {ConstantMatrix(n, Q(1, 1)) : n \in 2..MaxLeaves}

LeafName(i) == "read" \o ToString(i)

ClusterInputs ==
    {[dist_matrix |-> D, read_names |-> [i \in 1..Len(D) |-> LeafName(i - 1)],
      method |-> m] : D \in ClusterMatrices, m \in Methods}

InitCluster ==
    /\ cl \in ClusterInputs
    /\ hc = [HcIdle EXCEPT !.pc = "call"]
    /\ mb = MbIdle
    /\ tc = TcIdle
    /\ av = AvIdle
    /\ rd = RdIdle
    /\ dec = DecIdle
    /\ ar = ArIdle
    /\ rp = RpIdle
    /\ job = JobIdle
    /\ pool = PoolIdle
    /\ wk = <<>>
    /\ mx = MxIdle
    /\ dm = DmIdle
    /\ th = <<>>

\* TreeStructure.hpp lines 48-60
create_leaf(index, name) ==
    [node_id |-> index, label |-> name, is_leaf |-> TRUE, left |-> -1, right |-> -1,
     height |-> HeightZero, branch_length |-> [hi |-> HeightZero, lo |-> HeightZero],
     leaf_indices |-> <<index>>]

\* std::sort of the concatenated leaf indices
RECURSIVE SortedSeq(_)
SortedSeq(S) ==
    IF S = {} THEN <<>>
    ELSE LET m == CHOOSE x \in S : \A y \in S : x <= y IN <<m>> \o SortedSeq(S \ {m})

\* TreeStructure.hpp lines 62-89: the new node (the children's branch lengths
\* are set by MergeStep)
create_internal(id, l, r, merge_height) ==
    [node_id |-> id, label |-> "", is_leaf |-> FALSE, left |-> l.node_id,
     right |-> r.node_id, height |-> merge_height,
     branch_length |-> [hi |-> merge_height, lo |-> merge_height],
     leaf_indices |-> SortedSeq(Range(l.leaf_indices \o r.leaf_indices))]

\* the cells D(i, j), i in cluster_a, j in cluster_b, in the order of the loops
CrossCells(D, a, b) ==
    [k \in 1..(Len(a) * Len(b)) |->
        D[a[((k - 1) \div Len(b)) + 1] + 1][b[((k - 1) % Len(b)) + 1] + 1]]

RECURSIVE Accumulate(_, _, _)
Accumulate(method, acc, cells) ==
    IF cells = <<>> THEN acc
    ELSE LET d == Head(cells)
             next == CASE method = "UPGMA" -> Plus(acc, d)
                       [] method = "WARD" -> Plus(acc, Times(d, d))
                       [] method = "SINGLE" -> StdMin(acc, d)
                       [] OTHER -> StdMax(acc, d)
         IN Accumulate(method, next, Tail(cells))

\* HierarchicalClustering.cpp lines 72-85: the mean over the cross pairs
build_upgma(D, a, b) ==
    DivideBy(Accumulate("UPGMA", Q(0, 1), CrossCells(D, a, b)), Len(a) * Len(b))

\* lines 98-110: the minimum, NaN cells never taken
build_single(D, a, b) == Accumulate("SINGLE", DBL_MAX, CrossCells(D, a, b))

\* lines 124-136: the maximum, from 0.0
build_complete(D, a, b) == Accumulate("COMPLETE", Q(0, 1), CrossCells(D, a, b))

\* lines 153-175: the weighted mean of the squares
build_ward(D, a, b, size_a, size_b) ==
    LET avg_sq_dist == DivideBy(Accumulate("WARD", Q(0, 1), CrossCells(D, a, b)),
                                Len(a) * Len(b))
        weight == Q(size_a * size_b, size_a + size_b)
    IN Times(weight, avg_sq_dist)

compute_cluster_distance(method, D, a, b, size_a, size_b) ==
    CASE method = "UPGMA" -> build_upgma(D, a, b)
      [] method = "WARD" -> build_ward(D, a, b, size_a, size_b)
      [] method = "SINGLE" -> build_single(D, a, b)
      [] OTHER -> build_complete(D, a, b)

distance_to_height_Identity(method, d) == H(d, 0)

\* lines 88, 114, 140 and 178: d / 2, and sqrt(d) / 2 for WARD
distance_to_height(method, d) ==
    IF method = "WARD" THEN H(Sqrt(d.n, d.d * 4), 0) ELSE H(DivideBy(d, 2), 0)

Improves_OrEqual(dist, min_dist) == ~Less(min_dist, dist) /\ dist.k # "nan"

\* line 234: dist < min_dist
Improves(dist, min_dist) == Less(dist, min_dist)

NoPair == [min_dist |-> DBL_MAX, min_i |-> -1, min_j |-> -1]

\* lines 223-239: the inner loop over j
RECURSIVE ScanJ(_, _, _, _)
ScanJ(s, i, j, best) ==
    IF j >= Len(s.nodes) THEN best
    ELSE IF ~s.active[j + 1] THEN ScanJ(s, i, j + 1, best)
    ELSE LET dist == compute_cluster_distance(cl.method, cl.dist_matrix,
                                              s.cluster_members[i + 1],
                                              s.cluster_members[j + 1],
                                              s.cluster_sizes[i + 1], s.cluster_sizes[j + 1])
         IN ScanJ(s, i, j + 1,
                  IF Improves(dist, best.min_dist)
                  THEN [min_dist |-> dist, min_i |-> i, min_j |-> j] ELSE best)

\* lines 221-240: the outer loop over i
RECURSIVE ScanI(_, _, _)
ScanI(s, i, best) ==
    IF i >= Len(s.nodes) THEN best
    ELSE IF ~s.active[i + 1] THEN ScanI(s, i + 1, best)
    ELSE ScanI(s, i + 1, ScanJ(s, i, i + 1, best))

ClampHeight_Never(merge_height, max_child_height) == merge_height

\* lines 251-254
ClampHeight(merge_height, max_child_height) ==
    IF HeightLess(merge_height, PlusMinBranchLength(max_child_height))
    THEN PlusMinBranchLength(max_child_height) ELSE merge_height

\* lines 29-65 and 194-213: the checks, the special cases, the leaves
BuildTree ==
    /\ hc.pc = "call"
    /\ LET n == Len(cl.dist_matrix)
       IN IF (\E r \in 1..n : Len(cl.dist_matrix[r]) # n) \/ n # Len(cl.read_names)
          THEN hc' = [hc EXCEPT !.pc = "threw"]
          ELSE IF n = 0
          THEN hc' = [hc EXCEPT !.pc = "done"]
          ELSE IF n = 1
          THEN hc' = [hc EXCEPT !.pc = "done", !.root = 0,
                                !.nodes = <<create_leaf(0, cl.read_names[1])>>]
          ELSE hc' = [hc EXCEPT
                        !.pc = "merge",
                        !.nodes = [i \in 1..n |-> create_leaf(i - 1, cl.read_names[i])],
                        !.cluster_members = [i \in 1..n |-> <<i - 1>>],
                        !.cluster_sizes = [i \in 1..n |-> 1],
                        !.active = [i \in 1..n |-> TRUE],
                        !.next_node_id = n,
                        !.active_count = n]
    /\ UNCHANGED <<rd, dec, ar, rp, job, pool, wk, mx, dm, th, cl, mb, tc, av>>

\* lines 216-294: one iteration of the merge loop
MergeStep ==
    /\ hc.pc = "merge"
    /\ hc.active_count > 1
    /\ \E best \in {ScanI(hc, 0, NoPair)} :
          /\ best.min_i >= 0 /\ best.min_j >= 0
          /\ \E merge_height \in
                  {ClampHeight(distance_to_height(cl.method, best.min_dist),
                               HeightMax(hc.nodes[best.min_i + 1].height,
                                         hc.nodes[best.min_j + 1].height))} :
                LET min_i == best.min_i
                    min_j == best.min_j
                    new_node == create_internal(hc.next_node_id, hc.nodes[min_i + 1],
                                                hc.nodes[min_j + 1], merge_height)
                    record == [cluster_i |-> min_i, cluster_j |-> min_j,
                               distance |-> best.min_dist,
                               new_cluster_id |-> hc.next_node_id,
                               size |-> hc.cluster_sizes[min_i + 1]
                                        + hc.cluster_sizes[min_j + 1]]
                IN hc' = [hc EXCEPT
                            !.nodes = Append([@ EXCEPT
                                                ![min_i + 1].branch_length =
                                                    [hi |-> merge_height, lo |-> @.lo],
                                                ![min_j + 1].branch_length =
                                                    [hi |-> merge_height, lo |-> @.lo]],
                                             new_node),
                            !.merge_records = Append(@, record),
                            !.cluster_members = Append(@, hc.cluster_members[min_i + 1]
                                                          \o hc.cluster_members[min_j + 1]),
                            !.cluster_sizes = Append(@, record.size),
                            !.active = Append([@ EXCEPT ![min_i + 1] = FALSE,
                                                        ![min_j + 1] = FALSE], TRUE),
                            !.next_node_id = @ + 1,
                            !.active_count = @ - 1]
    /\ UNCHANGED <<rd, dec, ar, rp, job, pool, wk, mx, dm, th, cl, mb, tc, av>>

\* the last active cluster, -1 if there is none
LastActive(active) ==
    IF \E i \in DOMAIN active : active[i]
    THEN (CHOOSE i \in DOMAIN active : active[i] /\ \A k \in DOMAIN active : active[k] => k <= i) - 1
    ELSE -1

\* lines 216, 242-245 and 296-310: the loop ends (one cluster left, or no pair
\* was selected) and the last active cluster becomes the root
ReturnTree ==
    /\ hc.pc = "merge"
    /\ \/ hc.active_count <= 1
       \/ \E best \in {ScanI(hc, 0, NoPair)} : best.min_i < 0 \/ best.min_j < 0
    /\ hc' = [hc EXCEPT !.pc = "done", !.root = LastActive(hc.active)]
    /\ UNCHANGED <<rd, dec, ar, rp, job, pool, wk, mx, dm, th, cl, mb, tc, av>>

NextCluster == BuildTree \/ MergeStep \/ ReturnTree

SpecCluster == InitCluster /\ [][NextCluster]_vars

(***************************************************************************)
(* RegionProcessor::process_single_region after the read loop: the         *)
(* all-reads distance matrix, the tree, the return.  The files and the     *)
(* strand-specific matrices and trees are not part of this run.            *)
(***************************************************************************)
\* Config.hpp lines 36-56: the default distance configuration and linkage
RegionDistanceConfig ==
    [metric |-> "NHD", pearson_center |-> TRUE, jaccard_include_unmeth |-> FALSE,
     nan_strategy |-> "MAX_DIST", min_common_coverage |-> 3,
     max_distance_value |-> [k |-> "q", s |-> 0, n |-> 1, d |-> 1], num_threads |-> 1]

\* lines 408-516: the all-reads distance matrix of the first metric, and the
\* call of build_tree on it
ComputeDistances ==
    /\ rp.pc = "finalized"
    /\ IF ar.compute_distance_matrix /\ rp.num_reads >= 2 /\ rp.num_cpgs >= 1
       THEN LET meth_mat == MethylationMatrixOf(rp.matrix_)
                all_dist == [read_ids |-> meth_mat.read_ids,
                             dist_matrix |-> ComputedMatrix(meth_mat, RegionDistanceConfig)]
            IN IF ar.compute_clustering /\ rp.num_reads >= ar.clustering_min_reads
               THEN /\ rp' = [rp EXCEPT !.pc = "clustering", !.all_dist = all_dist]
                    /\ cl' = [dist_matrix |-> all_dist.dist_matrix,
                              read_names |-> [r \in DOMAIN rp.reads_ |->
                                                 rp.reads_[r].read_name],
                              method |-> "UPGMA"]
                    /\ hc' = [HcIdle EXCEPT !.pc = "call"]
               ELSE /\ rp' = [rp EXCEPT !.pc = "cleanup", !.all_dist = all_dist]
                    /\ UNCHANGED <<cl, hc>>
       ELSE /\ rp' = [rp EXCEPT !.pc = "cleanup"]
            /\ UNCHANGED <<cl, hc>>
    /\ UNCHANGED <<rd, dec, ar, job, pool, wk, mx, dm, th, mb, tc, av>>

\* lines 586-601: the records are released (bam_destroy1 on each, lines
\* 586-589) and the result returned; an exception of build_tree is caught by
\* the handler of lines 591-594, which the release loop does not precede
ReturnRegion ==
    /\ rp.pc = "cleanup" \/ (rp.pc = "clustering" /\ hc.pc \in {"done", "threw"})
    /\ IF rp.pc = "clustering" /\ hc.pc = "threw"
       THEN rp' = [rp EXCEPT !.pc = "failed", !.success = FALSE,
                             !.error_message = "Number of names must match matrix dimension"]
       ELSE rp' = [rp EXCEPT !.pc = "done", !.success = TRUE,
                             !.destroyed = [k \in DOMAIN @ |-> @[k] + 1]]
    /\ UNCHANGED <<rd, dec, ar, job, pool, wk, mx, dm, th, cl, hc, mb, tc, av>>

NextRegion ==
    \/ FetchRegion \/ ReadStep \/ FinalizeRegion \/ ComputeDistances
    \/ BuildTree \/ MergeStep \/ ReturnTree
    \/ ReturnRegion

SpecRegion == InitRegion /\ [][NextRegion]_vars

\* the number of rows of the distance matrix given to build_tree
NumLeaves == Len(cl.dist_matrix)

\* the nodes of the subtree of node id
RECURSIVE NodesUnder(_)
NodesUnder(id) ==
    IF id < 0 THEN {}
    ELSE {id} \cup NodesUnder(hc.nodes[id + 1].left) \cup NodesUnder(hc.nodes[id + 1].right)

\* the nodes, the leaves and the internal nodes of the returned tree
TreeNodes == NodesUnder(hc.root)
TreeLeaves == {id \in TreeNodes : hc.nodes[id + 1].is_leaf}
TreeInternal == {id \in TreeNodes : ~hc.nodes[id + 1].is_leaf}

\* TreeStructure.hpp lines 145-147: Tree::num_leaves
num_leaves == IF hc.root < 0 THEN 0 ELSE Len(hc.nodes[hc.root + 1].leaf_indices)

\* some cell of the distance matrix is NaN
HasNaN == \E i, j \in 1..NumLeaves : cl.dist_matrix[i][j].k = "nan"

\* C15: for N >= 1 the returned tree has exactly N leaves and N-1 internal
\* nodes, each leaf's leaf_indices is its own index alone, and the root's
\* leaf_indices is {0,...,N-1}.
C15_TreeHasEveryLeaf ==
    (hc.pc = "done" /\ NumLeaves >= 1) =>
        /\ num_leaves = NumLeaves
        /\ Cardinality(TreeLeaves) = NumLeaves
        /\ Cardinality(TreeInternal) = NumLeaves - 1
        /\ \A id \in TreeLeaves : hc.nodes[id + 1].leaf_indices = <<id>>
        /\ hc.root >= 0
        /\ Range(hc.nodes[hc.root + 1].leaf_indices) = 0..(NumLeaves - 1)

\* the node the k-th merge created and its two children
MergedNode(k) == hc.nodes[NumLeaves + k]
LeftChild(k) == hc.nodes[hc.merge_records[k].cluster_i + 1]
RightChild(k) == hc.nodes[hc.merge_records[k].cluster_j + 1]

\* the height the linkage gives the k-th merge, and the larger child height
DerivedHeight(k) == distance_to_height(cl.method, hc.merge_records[k].distance)
MaxChildHeight(k) == HeightMax(LeftChild(k).height, RightChild(k).height)

Merges == 1..Len(hc.merge_records)

\* no child is higher than its parent
HeightsNonDecreasing ==
    \A k \in Merges :
        /\ ~HeightLess(MergedNode(k).height, LeftChild(k).height)
        /\ ~HeightLess(MergedNode(k).height, RightChild(k).height)

\* C16 as stated: heights are non-decreasing towards the root; a merge whose
\* derived height is below the larger child height gets max_child_height +
\* epsilon, and every other merge keeps its derived height.
C16_ClampOnlyBelowChild ==
    /\ HeightsNonDecreasing
    /\ \A k \in Merges :
          MergedNode(k).height =
              IF HeightLess(DerivedHeight(k), MaxChildHeight(k))
              THEN PlusMinBranchLength(MaxChildHeight(k)) ELSE DerivedHeight(k)

\* C16, amended: heights are non-decreasing towards the root; a merge whose
\* derived height is below max_child_height + epsilon gets max_child_height +
\* epsilon, and a merge whose derived height is at least that keeps it.
C16_ClampWithinMinBranchLength ==
    /\ HeightsNonDecreasing
    /\ \A k \in Merges :
          MergedNode(k).height =
              IF HeightLess(DerivedHeight(k), PlusMinBranchLength(MaxChildHeight(k)))
              THEN PlusMinBranchLength(MaxChildHeight(k)) ELSE DerivedHeight(k)

\* a finished tree with a clamped merge whose derived height equals the larger
\* child height, and a merge that kept its derived height
C16_Witness ==
    /\ hc.pc = "done"
    /\ \E k \in Merges :
          /\ DerivedHeight(k) = MaxChildHeight(k)
          /\ MergedNode(k).height = PlusMinBranchLength(MaxChildHeight(k))
    /\ \E k \in Merges : MergedNode(k).height = DerivedHeight(k)

\* the clusters that are active when the k-th merge is chosen
ActiveBefore(k) ==
    {c \in 0..(NumLeaves + k - 2) :
        \A m \in 1..(k - 1) :
            c # hc.merge_records[m].cluster_i /\ c # hc.merge_records[m].cluster_j}

\* the pairs (i, j) of original rows across clusters a and b, and their cells
CrossOf(a, b) == Range(hc.cluster_members[a + 1]) \X Range(hc.cluster_members[b + 1])
CellAt(p) == cl.dist_matrix[p[1] + 1][p[2] + 1]
CellsOf(a, b) == {CellAt(p) : p \in CrossOf(a, b)}
AllNumbers(a, b) == \A c \in CellsOf(a, b) : c.k = "q"

RECURSIVE SumCross(_, _)
SumCross(P, squared) ==
    IF P = {} THEN Q(0, 1)
    ELSE LET p == CHOOSE x \in P : TRUE
         IN Plus(IF squared THEN Times(CellAt(p), CellAt(p)) ELSE CellAt(p),
                 SumCross(P \ {p}, squared))

\* the cluster distance of the linkage table, from the original distances
LinkageDistance(a, b) ==
    LET P == CrossOf(a, b)
        sa == Len(hc.cluster_members[a + 1])
        sb == Len(hc.cluster_members[b + 1])
    IN CASE cl.method = "UPGMA" -> DivideBy(SumCross(P, FALSE), Cardinality(P))
         [] cl.method = "SINGLE" ->
                CHOOSE c \in CellsOf(a, b) : \A x \in CellsOf(a, b) : ~Less(x, c)
         [] cl.method = "COMPLETE" ->
                CHOOSE c \in CellsOf(a, b) : \A x \in CellsOf(a, b) : ~Less(c, x)
         [] OTHER -> Times(Q(sa * sb, sa + sb), DivideBy(SumCross(P, TRUE), Cardinality(P)))

\* the k-th merge joins two active clusters at the least cluster distance
\* (pairs with a NaN cell have no cluster distance and are left out)
MergesMinimumPair(k) ==
    LET r == hc.merge_records[k]
    IN /\ r.cluster_i \in ActiveBefore(k)
       /\ r.cluster_j \in ActiveBefore(k)
       /\ r.cluster_i # r.cluster_j
       /\ AllNumbers(r.cluster_i, r.cluster_j) =>
              r.distance = LinkageDistance(r.cluster_i, r.cluster_j)
       /\ \A a, b \in ActiveBefore(k) :
              (a < b /\ AllNumbers(a, b)) => ~Less(LinkageDistance(a, b), r.distance)

HalfOf(d) == H(DivideBy(d, 2), 0)

\* the recorded merges as <<leaves of the new cluster, distance, height>>
MergeSummary ==
    [k \in Merges |-> <<Range(MergedNode(k).leaf_indices), hc.merge_records[k].distance,
                        MergedNode(k).height>>]

IsExample == cl.dist_matrix = Dist4x4 /\ cl.method = "UPGMA" /\ hc.pc = "done"

PairLeq(a, b, c, d) == a < c \/ (a = c /\ b <= d)

\* the active pairs that share the distance of the k-th merge
TiedPairs(k) ==
    {p \in ActiveBefore(k) \X ActiveBefore(k) :
        /\ p[1] < p[2]
        /\ AllNumbers(p[1], p[2])
        /\ LinkageDistance(p[1], p[2]) = hc.merge_records[k].distance}

\* every two distinct rows are at the same distance
AllDistancesEqual ==
    \E v \in {cl.dist_matrix[1][2]} :
        /\ v.k = "q"
        /\ \A i, j \in 1..NumLeaves : i # j => cl.dist_matrix[i][j] = v

LowestTiedPairIsMerged ==
    \A k \in Merges :
        /\ MergesMinimumPair(k)
        /\ \A p \in TiedPairs(k) :
              PairLeq(hc.merge_records[k].cluster_i, hc.merge_records[k].cluster_j, p[1], p[2])

EqualDistancesTakeAllMerges ==
    (hc.pc = "done" /\ NumLeaves >= 2 /\ AllDistancesEqual) =>
        Len(hc.merge_records) = NumLeaves - 1

\* every iteration of the loop is a merge that leaves one active cluster
\* fewer, so that the loop has run at most N-1 times
LoopIsBounded ==
    hc.pc = "merge" =>
        /\ hc.active_count = NumLeaves - Len(hc.merge_records)
        /\ hc.active_count >= 1

\* C18: among the active pairs at the minimum cluster distance the lowest
\* (i, j) is merged, so each merge is determined by the matrix alone; with all
\* pairwise distances equal the loop ends after exactly N-1 merges.
C18_TiesTakeLowestPair ==
    /\ LowestTiedPairIsMerged
    /\ LoopIsBounded
    /\ EqualDistancesTakeAllMerges

\* a finished run over three or more rows at equal distances, where a merge
\* had other pairs at its distance
C18_Witness ==
    /\ hc.pc = "done"
    /\ NumLeaves >= 3
    /\ AllDistancesEqual
    /\ Len(hc.merge_records) = NumLeaves - 1
    /\ \E k \in Merges : Cardinality(TiedPairs(k)) >= 2

\* the tree the region got: build_tree was called and has returned
RegionTree == IF hc.pc = "done" /\ hc.root >= 0 THEN hc.nodes[hc.root + 1] ELSE [node_id |-> -1]
RegionHasTree == hc.pc = "done" /\ hc.root >= 0

\* C19: a region whose matrix has exactly one read has a 1x1 distance matrix
\* holding the zero diagonal, and a tree that is a single leaf.
C19_OneReadOneLeaf ==
    (rp.pc = "done" /\ rp.num_reads = 1) =>
        /\ rp.all_dist.dist_matrix = <<<<Q(0, 1)>>>>
        /\ RegionHasTree
        /\ RegionTree.is_leaf

\* C20 as stated: a region whose archive returns no read ends with
\* success = true, an empty matrix, an empty distance matrix and no tree.
C20_NoReadsSucceeds ==
    (rp.pc \in {"done", "failed"} /\ ar.reads = <<>>) =>
        /\ rp.success
        /\ rp.matrix_ = <<>> /\ rp.cpg_positions_ = <<>> /\ rp.reads_ = <<>>
        /\ rp.all_dist.read_ids = <<>> /\ rp.all_dist.dist_matrix = <<>>
        /\ ~RegionHasTree /\ hc.pc = "idle"

\* C20, amended: a region whose archive returns no read and whose reference
\* sequence is fetched ends with success = true, an empty matrix, an empty
\* distance matrix and no tree; without the reference it ends with
\* success = false.
C20_NoReadsSucceedsWithReference ==
    (rp.pc \in {"done", "failed"} /\ ar.reads = <<>>) =>
        /\ rp.success = ar.ref_ok
        /\ rp.matrix_ = <<>> /\ rp.cpg_positions_ = <<>> /\ rp.reads_ = <<>>
        /\ rp.all_dist.read_ids = <<>> /\ rp.all_dist.dist_matrix = <<>>
        /\ ~RegionHasTree /\ hc.pc = "idle"

\* a region without reads has returned successfully
C20_Witness == rp.pc = "done" /\ ar.reads = <<>> /\ rp.success /\ rp.finalized_

(***************************************************************************)
(* MatrixBuilder (MatrixBuilder.cpp): add_read, finalize and clear called  *)
(* in any order on one builder.                                            *)
(***************************************************************************)
MaxBuilderReads == 3    \* most reads added to one builder

\* the call lists a read brings: none, one call, calls in descending position
\* order, calls sharing a position, and calls at positions of their own
CallLists ==
    { <<>>,
      <<<<105, 10>>>>,
      <<<<109, 0>>, <<101, 10>>>>,
      <<<<101, 5>>, <<105, 0>>, <<101, 10>>>>,
      <<<<113, 5>>, <<105, 5>>>> }

\* line 17: a finalized builder takes no more reads
AddReadRejected_Never(b) == FALSE

AddReadRejected(b) == b.finalized_

\* read_methyl_data_ in the shape SortedPositions and FilledMatrix read
MethylData(b) == [r \in DOMAIN b.read_methyl_data_ |-> [methyl_calls |-> b.read_methyl_data_[r]]]

InitBuilder ==
    /\ mb = MbIdle
    /\ rd = RdIdle
    /\ dec = DecIdle
    /\ ar = ArIdle
    /\ rp = RpIdle
    /\ job = JobIdle
    /\ pool = PoolIdle
    /\ wk = <<>>
    /\ mx = MxIdle
    /\ dm = DmIdle
    /\ th = <<>>
    /\ cl = ClIdle
    /\ hc = HcIdle
    /\ tc = TcIdle
    /\ av = AvIdle

\* MatrixBuilder::add_read, lines 16-38
add_read ==
    /\ \E name \in QNames, calls \in CallLists :
          IF AddReadRejected(mb)
          THEN mb' = [mb EXCEPT !.last = "threw"]
          ELSE /\ Len(mb.reads_) < MaxBuilderReads
               /\ mb' = [mb EXCEPT !.reads_ = Append(@, name),
                                   !.read_methyl_data_ = Append(@, calls),
                                   !.added = Append(@, [read_name |-> name, methyl_calls |-> calls]),
                                   !.last = "added"]
    /\ UNCHANGED <<rd, dec, ar, rp, job, pool, wk, mx, dm, th, cl, hc, tc, av>>

\* MatrixBuilder::finalize, lines 40-105
finalize ==
    /\ IF mb.finalized_
       THEN mb' = [mb EXCEPT !.last = "already"]
       ELSE LET positions == SortedPositions(MethylData(mb))
            IN mb' = [mb EXCEPT !.cpg_positions_ = positions,
                                !.matrix_ = [r \in DOMAIN mb.reads_ |->
                                                FilledMatrix(MethylData(mb), positions)[r]],
                                !.read_methyl_data_ = <<>>,
                                !.finalized_ = TRUE,
                                !.last = "built"]
    /\ UNCHANGED <<rd, dec, ar, rp, job, pool, wk, mx, dm, th, cl, hc, tc, av>>

\* MatrixBuilder::clear, lines 107-114
clear ==
    /\ mb.last # "none"
    /\ mb' = MbIdle
    /\ UNCHANGED <<rd, dec, ar, rp, job, pool, wk, mx, dm, th, cl, hc, tc, av>>

NextBuilder == add_read \/ finalize \/ clear

SpecBuilder == InitBuilder /\ [][NextBuilder]_vars

(***************************************************************************)
(* C21                                                                     *)
(***************************************************************************)
\* the positions called in any of the reads added
CalledPositions(added) ==
    UNION {{c[1] : c \in Range(added[r].methyl_calls)} : r \in DOMAIN added}

\* the probability read r keeps at position p: that of its last call there
\* (a read decoded from one modification entry calls a position once)
ProbabilityAt(calls, p) ==
    LET at == {k \in DOMAIN calls : calls[k][1] = p}
    IN calls[CHOOSE k \in at : \A j \in at : j <= k][2]

\* C21: after finalize() the columns are the strictly ascending union of the
\* CpG positions called in any added read, row i belongs to the i-th read
\* added, and cell (i, c) holds read i's probability at the position of column
\* c when the read has a call there and the missing value -1 otherwise.
C21_MatrixIsReadsByPositions ==
    mb.finalized_ =>
        /\ \A c \in 1..(Len(mb.cpg_positions_) - 1) :
              mb.cpg_positions_[c] < mb.cpg_positions_[c + 1]
        /\ Range(mb.cpg_positions_) = CalledPositions(mb.added)
        /\ mb.reads_ = [i \in DOMAIN mb.added |-> mb.added[i].read_name]
        /\ Len(mb.matrix_) = Len(mb.added)
        /\ \A i \in DOMAIN mb.added :
              /\ Len(mb.matrix_[i]) = Len(mb.cpg_positions_)
              /\ \A c \in DOMAIN mb.cpg_positions_ :
                    mb.matrix_[i][c] =
                        IF \E x \in Range(mb.added[i].methyl_calls) : x[1] = mb.cpg_positions_[c]
                        THEN ProbabilityAt(mb.added[i].methyl_calls, mb.cpg_positions_[c])
                        ELSE -1

\* a finalized builder of three reads whose calls arrived out of position
\* order: a row with a missing cell and a row of several calls
C21_Witness ==
    /\ mb.finalized_
    /\ Len(mb.added) = 3
    /\ Len(mb.cpg_positions_) >= 3
    /\ mb.added[1].methyl_calls = <<<<109, 0>>, <<101, 10>>>>
    /\ \E i \in DOMAIN mb.matrix_ : \E c \in DOMAIN mb.cpg_positions_ : mb.matrix_[i][c] = -1

(***************************************************************************)
(* C23                                                                     *)
(***************************************************************************)
\* C23: once a builder is finalized, add_read and finalize leave its reads,
\* its column positions and its matrix as they are: finalize returns at once
\* and add_read throws before it touches a member. (clear() starts the builder
\* afresh; the region processor never calls it.)
C23_FinalizedBuilderIsFrozen ==
    [][(mb.finalized_ /\ mb'.last # "none") =>
          /\ mb'.reads_ = mb.reads_
          /\ mb'.cpg_positions_ = mb.cpg_positions_
          /\ mb'.matrix_ = mb.matrix_
          /\ mb'.finalized_
          /\ mb'.last \in {"threw", "already"}]_vars

\* an add_read refused by a finalized builder that holds a matrix
C23_Witness ==
    /\ mb.finalized_
    /\ mb.last = "threw"
    /\ Len(mb.matrix_) >= 2
    /\ Len(mb.cpg_positions_) >= 1

(***************************************************************************)
(* C22                                                                     *)
(***************************************************************************)
\* a raw cell against a pair of cut-offs
ThresholdedAt(val, t) ==
    IF val = RawNaN THEN -1
    ELSE IF val >= t.binary_methyl_high THEN 1
    ELSE IF val <= t.binary_methyl_low THEN 0
    ELSE -1

\* C22: every cell of the binary matrix the distances are computed from is the
\* raw cell thresholded against the configured cut-offs: 1 iff raw >= the
\* configured high threshold, 0 iff raw <= the configured low threshold, -1
\* otherwise (and -1 where the read has no call).
C22_BinaryByConfiguredThresholds ==
    \A r \in DOMAIN mx.methyl_mat.raw_matrix :
        \A k \in DOMAIN mx.methyl_mat.raw_matrix[r] :
            mx.methyl_mat.binary_matrix[r][k] =
                ThresholdedAt(mx.methyl_mat.raw_matrix[r][k], mx.thresholds)

(***************************************************************************)
(* C24                                                                     *)
(***************************************************************************)
\* the number of deltas of all the entries of the tag
TotalDeltas(es) == SumSeq([j \in 1..Len(es) |-> Len(es[j].deltas)])

\* the tags the claim rejects: no C+m? entry, more deltas up to the end of the
\* C+m? entry than probabilities, or a delta count unlike the probability count
TagsRejected(r) ==
    \/ ~HasCm(r.mm_entries)
    \/ PrecedingDeltaTotal(r.mm_entries) + Len(CmDeltas(r.mm_entries)) > Len(r.ml)
    \/ TotalDeltas(r.mm_entries) # Len(r.ml)

\* C24: a read whose tags have more deltas than probabilities, a delta count
\* that does not match the probability count, or no C+m? entry yields an empty
\* call list; no call of such a read is ever emitted.
C24_RejectedTagsYieldNoCalls ==
    (dec.pc # "start" /\ TagsRejected(rd)) => dec.calls = <<>>

(***************************************************************************)
(* C25                                                                     *)
(***************************************************************************)
\* no region was started and no result slot was written
NothingProcessed ==
    /\ \A n \in 1..NumToProcess(job) : pool.runs[n] = 0 /\ pool.results[n] = DefaultResult
    /\ \A w \in Workers : wk[w].pc = "open"

TwiceAgainstPlusOne(a, r) ==
    LET pn == SqNum(a.v)
        pd == SqDen(a.v)
        qn == SqNum(r.v)
        qd == SqDen(r.v)
        \* 4P - Q - 1 over pd * qd
        ln == 4 * pn * qd - qn * pd - pd * qd
        ld == pd * qd
        \* (4P - Q - 1)^2 against 4Q
        lhs == ln * ln * qd
        rhs == 4 * qn * ld * ld
    IN IF ln <= 0 THEN -1
       ELSE IF lhs < rhs THEN -1 ELSE IF lhs = rhs THEN 0 ELSE 1

\* line 385: merge_distance <= distance_threshold, merge_distance = height * 2.0
WithinThreshold(height, thr) ==
    CASE thr.kind = "above" -> ~Less(thr.h.v, height.v)
      [] thr.kind = "at" -> ~HeightLess(thr.h, height)
      [] OTHER -> LET c == TwiceAgainstPlusOne(height, thr.h)
                  IN c < 0 \/ (c = 0 /\ 2 * height.e <= thr.h.e)

\* lines 379-398: the breadth-first walk; a node within the threshold labels
\* the leaves under it
RECURSIVE CutWalk(_, _, _, _, _)
CutWalk(nodes, queue, labels, current_label, thr) ==
    IF queue = <<>> THEN labels
    ELSE LET node == nodes[Head(queue) + 1]
         IN IF node.is_leaf \/ WithinThreshold(node.height, thr)
            THEN CutWalk(nodes, Tail(queue),
                         [i \in DOMAIN labels |->
                             IF (i - 1) \in Range(node.leaf_indices)
                             THEN current_label ELSE labels[i]],
                         current_label + 1, thr)
            ELSE CutWalk(nodes, Tail(queue) \o <<node.left, node.right>>,
                         labels, current_label, thr)

\* lines 366-401: labels[leaf index], for a tree whose leaf indices fit
cut_by_distance(nodes, root, thr) ==
    IF root < 0 THEN <<>>
    ELSE CutWalk(nodes, <<root>>,
                 [i \in 1..Len(nodes[root + 1].leaf_indices) |-> 0], 0, thr)

\* line 388: a leaf index at or beyond n_leaves is written outside the vector
CutOverflows(nodes, root) ==
    root >= 0 /\ \E x \in Range(nodes[root + 1].leaf_indices) :
                    x >= Len(nodes[root + 1].leaf_indices)

\* Tree::get_internal_nodes
RECURSIVE InternalUnder(_, _)
InternalUnder(nodes, id) ==
    IF id < 0 \/ nodes[id + 1].is_leaf THEN <<>>
    ELSE <<id>> \o InternalUnder(nodes, nodes[id + 1].left)
                \o InternalUnder(nodes, nodes[id + 1].right)

\* lines 422-428: the heights of the internal nodes, highest first
RECURSIVE HeightsDescending(_)
HeightsDescending(hs) ==
    IF hs = <<>> THEN <<>>
    ELSE LET m == CHOOSE i \in DOMAIN hs : \A j \in DOMAIN hs : ~HeightLess(hs[i], hs[j])
         IN <<hs[m]>> \o HeightsDescending([k \in 1..(Len(hs) - 1) |->
                                               IF k < m THEN hs[k] ELSE hs[k + 1]])

\* line 439: the largest label plus one
NumClustersOf(labels) == (CHOOSE x \in Range(labels) : \A y \in Range(labels) : y <= x) + 1

\* lines 432-445: the first height, from the top, whose test cut has at least
\* num_clusters clusters; the default when there is none
RECURSIVE CutHeight(_, _, _, _, _)
CutHeight(nodes, root, hs, num_clusters, default) ==
    IF hs = <<>> THEN default
    ELSE IF NumClustersOf(cut_by_distance(nodes, root, [kind |-> "above", h |-> Head(hs)]))
              >= num_clusters
    THEN [kind |-> "at", h |-> Head(hs)]
    ELSE CutHeight(nodes, root, Tail(hs), num_clusters, default)

\* lines 403-448
cut_by_num_clusters(nodes, root, k) ==
    IF root < 0 THEN <<>>
    ELSE LET n_leaves == Len(nodes[root + 1].leaf_indices)
             num_clusters == IF k <= 0 THEN 1 ELSE k
             ids == InternalUnder(nodes, root)
             hs == HeightsDescending([i \in DOMAIN ids |-> nodes[ids[i] + 1].height])
         IN IF num_clusters >= n_leaves
            THEN [i \in 1..n_leaves |-> i - 1]
            ELSE cut_by_distance(nodes, root,
                    CutHeight(nodes, root, hs, num_clusters,
                              [kind |-> "default", h |-> hs[1]]))

\* a call of cut_by_num_clusters on the tree build_tree returned
CutByNumClusters ==
    /\ hc.pc = "done"
    /\ tc.pc = "idle"
    /\ \E k \in 0..MaxLeaves :
          IF /\ hc.root >= 0
             /\ (IF k <= 0 THEN 1 ELSE k) < Len(hc.nodes[hc.root + 1].leaf_indices)
             /\ CutOverflows(hc.nodes, hc.root)
          THEN tc' = [pc |-> "overflow", k |-> k, labels |-> <<>>]
          ELSE tc' = [pc |-> "done", k |-> k,
                      labels |-> cut_by_num_clusters(hc.nodes, hc.root, k)]
    /\ UNCHANGED <<rd, dec, ar, rp, job, pool, wk, mx, dm, th, cl, hc, mb, av>>

NextCut == BuildTree \/ MergeStep \/ ReturnTree \/ CutByNumClusters

SpecCut == InitCluster /\ [][NextCut]_vars

(***************************************************************************)
(* C26                                                                     *)
(***************************************************************************)
\* the leaves that carry a label
LeavesOfLabel(lab) == {i - 1 : i \in {i \in DOMAIN tc.labels : tc.labels[i] = lab}}

\* C26: for a tree with N leaves and 1 <= k <= N, cut_by_num_clusters returns
\* one label per leaf, exactly k distinct labels, and the leaves of each label
\* are the leaf set of one subtree.
C26_CutGivesKSubtrees ==
    (tc.pc = "done" /\ num_leaves >= 1 /\ tc.k >= 1 /\ tc.k <= num_leaves) =>
        /\ Len(tc.labels) = num_leaves
        /\ Cardinality(Range(tc.labels)) = tc.k
        /\ \A lab \in Range(tc.labels) :
              \E id \in TreeNodes : Range(hc.nodes[id + 1].leaf_indices) = LeavesOfLabel(lab)

(***************************************************************************)
(* ReadParser::determine_alt_support_with_reason (ReadParser.cpp lines     *)
(* 142-232): the walk over the alignment operations to the variant.        *)
(***************************************************************************)
MinBaseQuality == 20

\* alignments of a read of n stored bases that starts at the reference
\* position of the record: every operation kind
AltCigars(n) ==
    Cigars(n)
    \cup {<< [op |-> "H", len |-> 2], [op |-> "=", len |-> 1], [op |-> "X", len |-> n - 1] >>,
          << [op |-> "M", len |-> 1], [op |-> "N", len |-> 2], [op |-> "M", len |-> n - 1] >>,
          << [op |-> "S", len |-> n - 1], [op |-> "M", len |-> 1], [op |-> "P", len |-> 1],
             [op |-> "D", len |-> 1] >>,
          << [op |-> "S", len |-> n] >>}

\* the base qualities: all good, or one base below the minimum
AltQualities(n) ==
    {[q \in 1..n |-> 30]} \cup {[q \in 1..n |-> IF q = k THEN 10 ELSE 30] : k \in 1..n}

AltInputs ==
    [pos : {RefStart},
     cigar : AltCigars(MaxSeqLen),
     seq : [1..MaxSeqLen -> {"A", "G", "T"}],
     qual : AltQualities(MaxSeqLen),
     snv : [pos : (RefStart - 1)..(RefStart + MaxSeqLen + 3), ref_base : {"A"}, alt_base : {"G"}]]

\* htslib bam_endpos: the position after the last reference base of the
\* alignment, pos + 1 when the operations use no reference base
bam_endpos(b) ==
    LET rlen == SumSeq([i \in 1..Len(b.cigar) |->
                          IF b.cigar[i].op \in {"M", "=", "X", "D", "N"}
                          THEN b.cigar[i].len ELSE 0])
    IN IF rlen = 0 THEN b.pos + 1 ELSE b.pos + rlen

QualityTooLow_Never(q) == FALSE

\* line 216
QualityTooLow(q) == q < MinBaseQuality

InitAlt ==
    /\ \E b \in AltInputs :
          av = [pc |-> "call", b |-> b, snv_pos_0based |-> b.snv.pos - 1,
                ref_pos |-> 0, seq_pos |-> 0, read_offset |-> -1, i |-> 0,
                support |-> "", reason |-> ""]
    /\ rd = RdIdle
    /\ dec = DecIdle
    /\ ar = ArIdle
    /\ rp = RpIdle
    /\ job = JobIdle
    /\ pool = PoolIdle
    /\ wk = <<>>
    /\ mx = MxIdle
    /\ dm = DmIdle
    /\ th = <<>>
    /\ cl = ClIdle
    /\ hc = HcIdle
    /\ mb = MbIdle
    /\ tc = TcIdle

\* lines 145-160: the span test and the locals of the walk
AltBegin ==
    /\ av.pc = "call"
    /\ IF av.snv_pos_0based < av.b.pos \/ av.snv_pos_0based >= bam_endpos(av.b)
       THEN av' = [av EXCEPT !.pc = "done", !.support = "UNKNOWN", !.reason = "SNV_NOT_COVERED"]
       ELSE av' = [av EXCEPT !.pc = "walk", !.ref_pos = av.b.pos]
    /\ UNCHANGED <<rd, dec, ar, rp, job, pool, wk, mx, dm, th, cl, hc, mb, tc>>

\* lines 162-207: one operation of the switch
AltCigarStep ==
    /\ av.pc = "walk"
    /\ av.i < Len(av.b.cigar)
    /\ LET c == av.b.cigar[av.i + 1]
           inside == av.ref_pos <= av.snv_pos_0based /\ av.snv_pos_0based < av.ref_pos + c.len
       IN IF c.op \in {"M", "=", "X"}
          THEN IF inside
               THEN av' = [av EXCEPT !.read_offset = av.seq_pos + (av.snv_pos_0based - av.ref_pos),
                                     !.pc = "found"]
               ELSE av' = [av EXCEPT !.ref_pos = @ + c.len, !.seq_pos = @ + c.len, !.i = @ + 1]
          ELSE IF c.op \in {"I", "S"}
          THEN av' = [av EXCEPT !.seq_pos = @ + c.len, !.i = @ + 1]
          ELSE IF c.op \in {"D", "N"}
          THEN IF inside
               THEN av' = [av EXCEPT !.pc = "done", !.support = "UNKNOWN",
                                     !.reason = "SNV_IN_DELETION"]
               ELSE av' = [av EXCEPT !.ref_pos = @ + c.len, !.i = @ + 1]
          ELSE av' = [av EXCEPT !.i = @ + 1]
    /\ UNCHANGED <<rd, dec, ar, rp, job, pool, wk, mx, dm, th, cl, hc, mb, tc>>

\* lines 209-231: found_offset, the quality and the base
AltDecide ==
    /\ \/ av.pc = "found"
       \/ av.pc = "walk" /\ av.i = Len(av.b.cigar)
    /\ IF av.read_offset = -1
       THEN av' = [av EXCEPT !.pc = "done", !.support = "UNKNOWN", !.reason = "SNV_NOT_COVERED"]
       ELSE IF QualityTooLow(av.b.qual[av.read_offset + 1])
       THEN av' = [av EXCEPT !.pc = "done", !.support = "UNKNOWN", !.reason = "LOW_BASE_QUALITY"]
       ELSE LET base == av.b.seq[av.read_offset + 1]
            IN IF base = av.b.snv.alt_base
               THEN av' = [av EXCEPT !.pc = "done", !.support = "ALT", !.reason = "NONE"]
               ELSE IF base = av.b.snv.ref_base
               THEN av' = [av EXCEPT !.pc = "done", !.support = "REF", !.reason = "NONE"]
               ELSE av' = [av EXCEPT !.pc = "done", !.support = "UNKNOWN",
                                     !.reason = "NOT_REF_OR_ALT"]
    /\ UNCHANGED <<rd, dec, ar, rp, job, pool, wk, mx, dm, th, cl, hc, mb, tc>>

NextAlt == AltBegin \/ AltCigarStep \/ AltDecide

SpecAlt == InitAlt /\ [][NextAlt]_vars

(***************************************************************************)
(* C27                                                                     *)
(***************************************************************************)
\* the alignment column by column: the operation of each column
RECURSIVE Columns(_)
Columns(cigar) ==
    IF cigar = <<>> THEN <<>>
    ELSE [k \in 1..Head(cigar).len |-> Head(cigar).op] \o Columns(Tail(cigar))

\* reference and query bases used by the columns in front of column k
RefBefore(cols, k) == Cardinality({j \in 1..(k - 1) : cols[j] \in {"M", "=", "X", "D", "N"}})
QueryBefore(cols, k) == Cardinality({j \in 1..(k - 1) : cols[j] \in {"M", "=", "X", "I", "S"}})

\* the columns that sit on the reference position p
ColumnsAt(b, p) ==
    {k \in DOMAIN Columns(b.cigar) :
        /\ Columns(b.cigar)[k] \in {"M", "=", "X", "D", "N"}
        /\ b.pos + RefBefore(Columns(b.cigar), k) = p}

\* what the claim expects of a record and a variant
ExpectedSupport(b) ==
    LET cols == Columns(b.cigar)
        at == ColumnsAt(b, b.snv.pos - 1)
    IN IF at = {} THEN <<"UNKNOWN", "SNV_NOT_COVERED">>
       ELSE LET k == CHOOSE k \in at : TRUE
                q == QueryBefore(cols, k) + 1
            IN IF cols[k] \in {"D", "N"} THEN <<"UNKNOWN", "SNV_IN_DELETION">>
               ELSE IF b.qual[q] < MinBaseQuality THEN <<"UNKNOWN", "LOW_BASE_QUALITY">>
               ELSE IF b.seq[q] = b.snv.alt_base THEN <<"ALT", "NONE">>
               ELSE IF b.seq[q] = b.snv.ref_base THEN <<"REF", "NONE">>
               ELSE <<"UNKNOWN", "NOT_REF_OR_ALT">>

\* C27: with match/equal/diff using a reference and a query base, insert and
\* soft clip a query base, delete and skip a reference base and hard clip
\* nothing, the result is UNKNOWN/SNV_NOT_COVERED when no aligned column sits
\* on the variant, UNKNOWN/SNV_IN_DELETION when a delete or skip column does,
\* UNKNOWN/LOW_BASE_QUALITY when the aligned base's quality is below the
\* minimum, and otherwise ALT, REF or UNKNOWN by the aligned base.
C27_AltSupportFollowsAlignment ==
    av.pc = "done" => <<av.support, av.reason>> = ExpectedSupport(av.b)

\* the variant sits behind an insertion and the read carries the alt base there
C27_Witness ==
    /\ av.pc = "done"
    /\ av.support = "ALT"
    /\ \E i \in DOMAIN av.b.cigar : av.b.cigar[i].op = "I"
    /\ av.read_offset = 2

(***************************************************************************)
(* C28                                                                     *)
(***************************************************************************)
\* a record the loop keeps out of the matrix, and the reasons that keep it out
IsRejected(b) == ~should_keep(b) \/ b.alt.support = "UNKNOWN"
RejectionReasons(b) == IF ~should_keep(b) THEN FilterReasons(b) ELSE {b.alt.filter_reason}

\* C28: with the filtered-read output on (debug mode), every fetched record kept
\* out of the matrix by the filter or by UNKNOWN allele support is in the
\* filtered-read list with the reasons that rejected it.
C28_FilteredReadsCarryTheirReasons ==
    (rp.finalized_ /\ ar.output_filtered_reads /\ ~ar.no_filter_output) =>
        \A k \in 1..Len(ar.reads) :
            IsRejected(ar.reads[k]) =>
                \E f \in Range(rp.filtered_reads) :
                    f = FilteredInfo(ar.reads[k], RejectionReasons(ar.reads[k]))

(***************************************************************************)
(* C29                                                                     *)
(***************************************************************************)
\* C29: when the processing of a region has ended, with success or with a
\* failure, every record the archive returned for it has been released
\* exactly once.
C29_EveryRecordReleasedOnce ==
    rp.pc \in {"done", "failed"} =>
        /\ Len(rp.destroyed) = Len(ar.reads)
        /\ \A k \in DOMAIN rp.destroyed : rp.destroyed[k] = 1

(***************************************************************************)
(* C30                                                                     *)
(***************************************************************************)
\* the size of cluster id before the k-th merge: 1 for a leaf, the recorded
\* size for a cluster an earlier merge made
SizeOfCluster(id) ==
    IF id < NumLeaves THEN 1 ELSE hc.merge_records[id - NumLeaves + 1].size

\* C30: for N >= 2 leaves the returned tree has N-1 merge records in merge
\* order; the k-th (from 0) has new_cluster_id = N + k, names two distinct
\* clusters that exist (a leaf, or the new cluster of an earlier record) and
\* that no earlier record merged, and its size is the sum of their sizes; the
\* last record has size N.
C30_MergeRecordsAreComplete ==
    (hc.pc = "done" /\ NumLeaves >= 2) =>
        /\ Len(hc.merge_records) = NumLeaves - 1
        /\ \A k \in 1..Len(hc.merge_records) :
              LET m == hc.merge_records[k]
              IN /\ m.new_cluster_id = NumLeaves + k - 1
                 /\ m.cluster_i # m.cluster_j
                 /\ {m.cluster_i, m.cluster_j} \subseteq 0..(NumLeaves + k - 2)
                 /\ \A e \in 1..(k - 1) :
                       {hc.merge_records[e].cluster_i, hc.merge_records[e].cluster_j}
                          \cap {m.cluster_i, m.cluster_j} = {}
                 /\ m.size = SizeOfCluster(m.cluster_i) + SizeOfCluster(m.cluster_j)
        /\ hc.merge_records[Len(hc.merge_records)].size = NumLeaves

====
